---- MODULE Spec2Model ----
(***************************************************************************)
(* apollo-link-serialize: the SerializingLink (per-key queue of            *)
(* operations in front of a downstream executor) and extractKey (the key   *)
(* of an operation, from its context or from its @serialize directive).    *)
(*                                                                         *)
(* The repository holds two revisions of SerializingLink:                  *)
(*   "current" : src/unnamed/part_002 (key from extractKey; the queue      *)
(*               advances from the teardown of the returned Observable)    *)
(*   "legacy"  : src/src/SerializingLink.ts (key from the context only;    *)
(*               the error/complete handlers also call dequeue)            *)
(* The variable version selects the revision; it never changes.            *)
(*                                                                         *)
(* and two revisions of extractKey that differ in code of the repository:  *)
(*   "current" : src/src/extractKey.ts (cache of transformed documents;    *)
(*               the directive is removed from a deep copy)                *)
(*   "legacy"  : src/unnamed/part_005 (no cache; the directives of the     *)
(*               operation's own document are filtered)                    *)
(* The variable revision selects it; it never changes.                     *)
(* (src/unnamed/part_004 is the current revision with the removal of       *)
(* unused variables left to apollo-utilities.)                             *)
(*                                                                         *)
(* A handler of the program runs to its end before the next event is       *)
(* processed (JavaScript, one thread): each action is one whole handler.   *)
(* Handlers are written as operators on a record s of the program state,   *)
(* applied in the order of the statements of the code; s.effects lists     *)
(* what the handler has done so far, in order.                             *)
(***************************************************************************)
EXTENDS Integers, Sequences, FiniteSets, TLC

VARIABLES
    version,        \* revision of SerializingLink under check
    revision,       \* revision of extractKey under check
    opQueues,       \* this.opQueues: key -> sequence of OperationQueueEntry
    down,           \* per operation: its downstream execution (forward(operation) subscribed)
    ops,            \* per operation: the caller's side (request, result stream, observer)
    effects,        \* what the last handler did, in order
    emitted,        \* the event the downstream executor emitted in the last step
    received,       \* the events the callers' observers received in the last step
    heap,           \* the document objects made or changed since parsing: reference -> content
    documentCache,  \* documentCache: reference -> {doc, args}
    call            \* the last direct call of extractKey: its argument and its outcome

vars == <<version, revision, opQueues, down, ops, effects, emitted, received,
          heap, documentCache, call>>

----------------------------------------------------------------------------
(* Bounds *)

\* number of operations a run submits
NumOps == 3

\* number of direct calls of extractKey in a run
NumCalls == 3

OpIds == 1..NumOps

----------------------------------------------------------------------------
(* JavaScript values *)

\* the value undefined (no string of the program equals it)
Undefined == "<undefined>"

\* entry.subscription of an entry that has not been started
NoSub == 0

\* JavaScript truthiness of a string-or-undefined value
Truthy(v) == v # Undefined /\ v # ""

DIRECTIVE_NAME == "serialize"

\* JavaScript values of variable bindings and resolved key elements
JsString(x) == [t |-> "string", s |-> x, n |-> 0, b |-> FALSE]
JsNumber(x) == [t |-> "number", s |-> "", n |-> x, b |-> FALSE]
JsBoolean(x) == [t |-> "boolean", s |-> "", n |-> 0, b |-> x]
JsFunction == [t |-> "function", s |-> "", n |-> 0, b |-> FALSE]

\* names of the function-valued properties every plain object inherits from
\* Object.prototype
ObjectPrototype ==
    {"constructor", "toString", "toLocaleString", "valueOf",
     "hasOwnProperty", "isPrototypeOf", "propertyIsEnumerable"}

\* operation.variables: undefined, or a plain object with its own properties
EmptyObject == [x \in {} |-> JsFunction]
NoVariables == [defined |-> FALSE, own |-> EmptyObject]
Variables(own) == [defined |-> TRUE, own |-> own]
Bind(n, val) == Variables([x \in {n} |-> val])

\* name in variables
In(name, variables) == name \in DOMAIN variables.own \/ name \in ObjectPrototype

\* variables[name], for a name in variables
Get(variables, name) ==
    IF name \in DOMAIN variables.own THEN variables.own[name] ELSE JsFunction

----------------------------------------------------------------------------
(* Query documents (graphql AST): one operation definition with its        *)
(* variable definitions, directives and selection set, and the fragment   *)
(* definitions of the document.                                            *)

\* ValueNode; an IntValue carries its digits as the lexer read them, in digits
ValueNode(k) ==
    [kind |-> k, value |-> "", values |-> <<>>, fields |-> <<>>,
     digits |-> <<>>, bool |-> FALSE]

StringValue(s) == [ValueNode("StringValue") EXCEPT !.value = s]
EnumValue(s) == [ValueNode("EnumValue") EXCEPT !.value = s]
IntValue(ds) == [ValueNode("IntValue") EXCEPT !.digits = ds]
BooleanValue(b) == [ValueNode("BooleanValue") EXCEPT !.bool = b]
NullValue == ValueNode("NullValue")
ListValue(vs) == [ValueNode("ListValue") EXCEPT !.values = vs]
ObjectValue(fs) == [ValueNode("ObjectValue") EXCEPT !.fields = fs]
Variable(n) == [ValueNode("Variable") EXCEPT !.value = n]

\* ArgumentNode and ObjectFieldNode
Argument(n, v) == [name |-> n, value |-> v]

Directive(n, as) == [name |-> n, arguments |-> as]

\* SelectionNode
Field(n, as, ds, sels) ==
    [kind |-> "Field", name |-> n, arguments |-> as, directives |-> ds,
     selectionSet |-> sels]
InlineFragment(ds, sels) ==
    [kind |-> "InlineFragment", name |-> "", arguments |-> <<>>, directives |-> ds,
     selectionSet |-> sels]
FragmentSpread(n, ds) ==
    [kind |-> "FragmentSpread", name |-> n, arguments |-> <<>>, directives |-> ds,
     selectionSet |-> <<>>]

FragmentDefinition(n, ds, sels) == [name |-> n, directives |-> ds, selectionSet |-> sels]

\* OperationDefinitionNode
OperationDefinition(n, vds, ds, sels) ==
    [name |-> n, variableDefinitions |-> vds, directives |-> ds, selectionSet |-> sels]

\* DocumentNode: its first OperationDefinitionNode (name, variableDefinitions,
\* directives, selectionSet), the FragmentDefinitionNodes, and the further
\* OperationDefinitionNodes
Document(vds, ds, sels, frags) ==
    [name |-> "", variableDefinitions |-> vds, directives |-> ds, selectionSet |-> sels,
     fragments |-> frags, more |-> <<>>]

\* the document with its first operation named n and with further operations
Several(n, doc, more) == [doc EXCEPT !.name = n, !.more = more]

Hello == <<Field("hello", <<>>, <<>>, <<>>)>>

Serialize(v) == Directive(DIRECTIVE_NAME, <<Argument("key", v)>>)

\* { hello }
PlainDoc == Document(<<>>, <<>>, Hello, <<>>)

\* mutation ($v: String) @fizz { doThing(foo: $v) }
OtherDirectiveDoc ==
    Document(<<"v">>, <<Directive("fizz", <<>>)>>,
             <<Field("doThing", <<Argument("foo", Variable("v"))>>, <<>>, <<>>)>>, <<>>)

\* mutation @serialize(key: ["A"]) { hello }
LiteralKeyDoc == Document(<<>>, <<Serialize(ListValue(<<StringValue("A")>>))>>, Hello, <<>>)

\* mutation ($v: String) @serialize(key: [$v]) @fizz { hello }
VariableKeyDoc ==
    Document(<<"v">>,
             <<Serialize(ListValue(<<Variable("v")>>)), Directive("fizz", <<>>)>>,
             Hello, <<>>)

\* mutation @serialize { hello }
NoArgumentDoc == Document(<<>>, <<Directive(DIRECTIVE_NAME, <<>>)>>, Hello, <<>>)

\* mutation @serialize(key: []) { hello }
EmptyKeyDoc == Document(<<>>, <<Serialize(ListValue(<<>>))>>, Hello, <<>>)

\* mutation ($v: String) @fizz @serialize(key: [$v, true, FOO, 5, -12, "abc"]) @buzz { hello }
AllTypesDoc ==
    Document(<<"v">>,
             <<Directive("fizz", <<>>),
               Serialize(ListValue(<<Variable("v"), BooleanValue(TRUE), EnumValue("FOO"),
                                     IntValue(<<"5">>), IntValue(<<"-", "1", "2">>),
                                     StringValue("abc")>>)),
               Directive("buzz", <<>>)>>,
             Hello, <<>>)

\* mutation ($id: Int, $oid: String) @serialize(key: "thing:{{id}}:{{oid}}") @fizz { hello }
StringKeyDoc ==
    Document(<<"id", "oid">>,
             <<Serialize(StringValue("thing:{{id}}:{{oid}}")), Directive("fizz", <<>>)>>,
             Hello, <<>>)

\* mutation @serialize(key: 123) { hello }
NumberKeyDoc == Document(<<>>, <<Serialize(IntValue(<<"1", "2", "3">>))>>, Hello, <<>>)

\* mutation @serialize(key: {a: "b"}) { hello }
ObjectKeyDoc ==
    Document(<<>>, <<Serialize(ObjectValue(<<Argument("a", StringValue("b"))>>))>>,
             Hello, <<>>)

\* mutation @serialize(key: [{foo: "bar"}]) { hello }
ObjectElementDoc ==
    Document(<<>>,
             <<Serialize(ListValue(<<ObjectValue(<<Argument("foo", StringValue("bar"))>>)>>))>>,
             Hello, <<>>)

\* mutation @serialize(key: ["a", [1]]) { hello }
ListElementDoc ==
    Document(<<>>,
             <<Serialize(ListValue(<<StringValue("a"), ListValue(<<IntValue(<<"1">>)>>)>>))>>,
             Hello, <<>>)

\* mutation @serialize(key: [null]) { hello }
NullElementDoc == Document(<<>>, <<Serialize(ListValue(<<NullValue>>))>>, Hello, <<>>)

\* mutation ($v: String) @serialize(key: [$v]) @fizz @serialize(key: ["b", $v]) { hello }
RepeatedDirectiveDoc ==
    Document(<<"v">>,
             <<Serialize(ListValue(<<Variable("v")>>)), Directive("fizz", <<>>),
               Serialize(ListValue(<<StringValue("b"), Variable("v")>>))>>,
             Hello, <<>>)

\* query first { hello }
\* mutation second @serialize(key: ["A"]) { hello }
TwoOperationsDoc ==
    Several("first", PlainDoc,
            <<OperationDefinition("second", <<>>,
                                  <<Serialize(ListValue(<<StringValue("A")>>))>>, Hello)>>)

\* mutation ($v: String) @serialize(key: $v) { hello }
BareVariableKeyDoc == Document(<<"v">>, <<Serialize(Variable("v"))>>, Hello, <<>>)

\* mutation ($toString: String) @serialize(key: [$toString]) { hello }
PrototypeNameDoc ==
    Document(<<"toString">>, <<Serialize(ListValue(<<Variable("toString")>>))>>,
             Hello, <<>>)

\* mutation ($key: String, $foo: Int) @serialize(key: [$key, $foo]) { doThing(foo: $foo) }
UsedVariableDoc ==
    Document(<<"key", "foo">>,
             <<Serialize(ListValue(<<Variable("key"), Variable("foo")>>))>>,
             <<Field("doThing", <<Argument("foo", Variable("foo"))>>, <<>>, <<>>)>>,
             <<>>)

\* mutation ($v: String, $key: String, $foo: Int, $id: Int, $oid: String)
\*     @serialize(key: [$v, $key, $foo, $id, $oid]) @other(x: $v) {
\*   doSome { nested(c: $key) }
\*   doThing(a: [{in: $foo}])
\*   ...Foo
\* }
\* fragment Foo on Doctor { abc(b: $id) }
UsedEverywhereDoc ==
    Document(<<"v", "key", "foo", "id", "oid">>,
             <<Serialize(ListValue(<<Variable("v"), Variable("key"), Variable("foo"),
                                     Variable("id"), Variable("oid")>>)),
               Directive("other", <<Argument("x", Variable("v"))>>)>>,
             <<Field("doSome", <<>>, <<>>,
                     <<Field("nested", <<Argument("c", Variable("key"))>>, <<>>, <<>>)>>),
               Field("doThing",
                     <<Argument("a", ListValue(<<ObjectValue(
                                         <<Argument("in", Variable("foo"))>>)>>))>>,
                     <<>>, <<>>),
               FragmentSpread("Foo", <<>>)>>,
             <<FragmentDefinition("Foo", <<>>,
                   <<Field("abc", <<Argument("b", Variable("id"))>>, <<>>, <<>>)>>)>>)

\* mutation ($v: String) @serialize(key: [$v]) { ... on Doctor { abc(b: $v) } }
InlineFragmentDoc ==
    Document(<<"v">>,
             <<Serialize(ListValue(<<Variable("v")>>))>>,
             <<InlineFragment(<<>>,
                   <<Field("abc", <<Argument("b", Variable("v"))>>, <<>>, <<>>)>>)>>,
             <<>>)

\* the documents the callers have parsed (gql`...`), each one object; a
\* document is referred to by its index
Documents ==
    <<PlainDoc, LiteralKeyDoc, NoArgumentDoc, VariableKeyDoc, EmptyKeyDoc, AllTypesDoc,
      StringKeyDoc, NumberKeyDoc, ObjectKeyDoc, BareVariableKeyDoc, PrototypeNameDoc,
      UsedVariableDoc, UsedEverywhereDoc, InlineFragmentDoc, OtherDirectiveDoc,
      ObjectElementDoc, ListElementDoc, NullElementDoc, RepeatedDirectiveDoc,
      TwoOperationsDoc>>

DocRefs == 1..Len(Documents)

\* the reference of a parsed document
Ref(doc) == CHOOSE i \in DocRefs : Documents[i] = doc

\* the content of the document object at ref: as it was parsed, unless the
\* object was made or changed since
Content(h, ref) == IF ref \in DOMAIN h THEN h[ref] ELSE Documents[ref]

\* the object at ref gets the content doc
Store(s, ref, doc) ==
    [s EXCEPT !.heap = [r \in DOMAIN @ \cup {ref} |-> IF r = ref THEN doc ELSE @[r]]]

\* Operations a caller submits: context.serializationKey, query (a reference
\* to a document object), variables, operationName
Operation(k, q, vs) ==
    [serializationKey |-> k, query |-> q, variables |-> vs, operationName |-> Undefined]

\* createOperation(context, {query, variables, operationName})
Named(operation, n) == [operation EXCEPT !.operationName = n]

Operations ==
    { Operation("A", Ref(PlainDoc), NoVariables),
      Operation("B", Ref(PlainDoc), NoVariables),
      Operation(Undefined, Ref(PlainDoc), NoVariables),
      Operation("", Ref(PlainDoc), NoVariables),
      Operation(Undefined, Ref(LiteralKeyDoc), NoVariables),
      Operation(Undefined, Ref(NoArgumentDoc), NoVariables),
      Operation(Undefined, Ref(VariableKeyDoc), NoVariables) }

----------------------------------------------------------------------------
(* Program state as a record, and what a handler has done so far *)

Effect(e, o, k) == [e |-> e, op |-> o, key |-> k]

Did(s, e, o, k) == [s EXCEPT !.effects = Append(@, Effect(e, o, k))]

\* const name = value; ...rest, written Const({ rest : name \in {value} }):
\* the value is computed once and the rest of the function refers to it by
\* name
Const(rest) == CHOOSE result \in rest : TRUE

----------------------------------------------------------------------------
(* extractKey *)

\* JSON.stringify of an element of an array: a string, number or boolean; a
\* function is encoded as null
\* the text of a string inside a JSON string literal: a quote and a backslash
\* are written with a backslash before them; of the strings of the model
\* these have one
Escaped(x) ==
    CASE x = "a\",\"b" -> "a\\\",\\\"b"
      [] OTHER -> x

\* JSON.stringify that writes a string without quotes
JSONstringifyBare(val) ==
    CASE val.t = "string" -> val.s
      [] val.t = "number" -> ToString(val.n)
      [] val.t = "boolean" -> IF val.b THEN "true" ELSE "false"
      [] val.t = "function" -> "null"

JSONstringify(val) ==
    CASE val.t = "string" -> "\"" \o Escaped(val.s) \o "\""
      [] val.t = "number" -> ToString(val.n)
      [] val.t = "boolean" -> IF val.b THEN "true" ELSE "false"
      [] val.t = "function" -> "null"

\* Array.prototype.join(",") over the encoded elements
RECURSIVE Join(_)
Join(strs) ==
    IF Len(strs) = 0 THEN ""
    ELSE IF Len(strs) = 1 THEN strs[1]
    ELSE strs[1] \o "," \o Join(Tail(strs))

\* value of a decimal digit
Digit(c) ==
    CASE c = "0" -> 0 [] c = "1" -> 1 [] c = "2" -> 2 [] c = "3" -> 3 [] c = "4" -> 4
      [] c = "5" -> 5 [] c = "6" -> 6 [] c = "7" -> 7 [] c = "8" -> 8 [] c = "9" -> 9

\* the number a sequence of decimal digits denotes
RECURSIVE Magnitude(_)
Magnitude(ds) ==
    IF ds = <<>> THEN 0
    ELSE Magnitude(SubSeq(ds, 1, Len(ds) - 1)) * 10 + Digit(ds[Len(ds)])

\* parseInt(text, 10) of the text of an IntValue: an optional minus sign and
\* decimal digits
parseInt(ds) == IF ds[1] = "-" THEN 0 - Magnitude(Tail(ds)) ELSE Magnitude(ds)

\* a value, or the exception thrown instead of it
Return(val) == [threw |-> FALSE, message |-> "", val |-> val]
Throw(message) == [threw |-> TRUE, message |-> message, val |-> JsString("")]

getVariableOrDie(variables, name) ==
    IF ~variables.defined \/ ~In(name, variables)
    THEN Throw("No value supplied for variable $" \o name \o " used in @serialize key")
    ELSE Return(Get(variables, name))

\* the characters of a text, put together
RECURSIVE Text(_)
Text(chars) == IF chars = <<>> THEN "" ELSE Head(chars) \o Text(Tail(chars))

\* valueForArgument without parseInt: an IntValue yields its text
valueForArgumentText(value, variables) ==
    CASE value.kind = "Variable" -> getVariableOrDie(variables, value.value)
      [] value.kind = "IntValue" -> Return(JsString(Text(value.digits)))
      [] value.kind = "StringValue" -> Return(JsString(value.value))
      [] value.kind = "EnumValue" -> Return(JsString(value.value))
      [] value.kind = "BooleanValue" -> Return(JsBoolean(value.bool))
      [] OTHER -> Throw("Argument of type " \o value.kind
                        \o " is not allowed in @" \o DIRECTIVE_NAME \o " directive")

\* valueForArgument that takes a value of any other kind as null
valueForArgumentLenient(value, variables) ==
    CASE value.kind = "Variable" -> getVariableOrDie(variables, value.value)
      [] value.kind = "IntValue" -> Return(JsNumber(parseInt(value.digits)))
      [] value.kind = "StringValue" -> Return(JsString(value.value))
      [] value.kind = "EnumValue" -> Return(JsString(value.value))
      [] value.kind = "BooleanValue" -> Return(JsBoolean(value.bool))
      [] OTHER -> Return(JsFunction)

\* (no document of the model has a FloatValue)
valueForArgument(value, variables) ==
    CASE value.kind = "Variable" -> getVariableOrDie(variables, value.value)
      [] value.kind = "IntValue" -> Return(JsNumber(parseInt(value.digits)))
      [] value.kind = "StringValue" -> Return(JsString(value.value))
      [] value.kind = "EnumValue" -> Return(JsString(value.value))
      [] value.kind = "BooleanValue" -> Return(JsBoolean(value.bool))
      [] OTHER -> Throw("Argument of type " \o value.kind
                        \o " is not allowed in @" \o DIRECTIVE_NAME \o " directive")

\* [threw, message, key]: JSON.stringify(argumentList.values.map(valueForArgument));
\* the first element that throws ends the map
materializeKey(argumentList, variables) ==
    LET vals == [i \in 1..Len(argumentList.values) |->
                    valueForArgument(argumentList.values[i], variables)]
        failed == { i \in 1..Len(vals) : vals[i].threw }
    IN  IF failed # {}
        THEN [threw |-> TRUE,
              message |-> vals[CHOOSE i \in failed : \A j \in failed : i <= j].message,
              key |-> Undefined]
        ELSE [threw |-> FALSE, message |-> "",
              key |-> "[" \o Join([i \in 1..Len(vals) |-> JSONstringify(vals[i].val)]) \o "]"]

\* index of the first directive of that name, 0 when there is none
extractDirective(query, directiveName) ==
    LET hits == { i \in 1..Len(query.directives) : query.directives[i].name = directiveName }
    IN  IF hits = {} THEN 0 ELSE CHOOSE i \in hits : \A j \in hits : i <= j

\* reduce((a, b) => a.concat(b), []) over a sequence of sequences
RECURSIVE Flatten(_)
Flatten(seqs) == IF seqs = <<>> THEN <<>> ELSE Head(seqs) \o Flatten(Tail(seqs))

getAllArgumentsFromDirectives(directives) ==
    Flatten([i \in 1..Len(directives) |-> directives[i].arguments])

RECURSIVE getAllArgumentsFromSelectionSet(_)
RECURSIVE getAllArgumentsFromSelection(_)

getAllArgumentsFromSelectionSet(selectionSet) ==
    Flatten([i \in 1..Len(selectionSet) |-> getAllArgumentsFromSelection(selectionSet[i])])

getAllArgumentsFromSelection(selection) ==
    LET args == getAllArgumentsFromDirectives(selection.directives)
    IN  IF selection.kind = "Field"
        THEN args \o selection.arguments
                  \o getAllArgumentsFromSelectionSet(selection.selectionSet)
        ELSE args

getAllArgumentsFromOperation(op) ==
    getAllArgumentsFromDirectives(op.directives)
        \o getAllArgumentsFromSelectionSet(op.selectionSet)

getAllArgumentsFromFragment(frag) ==
    getAllArgumentsFromDirectives(frag.directives)
        \o getAllArgumentsFromSelectionSet(frag.selectionSet)

getAllArgumentsFromDocument(doc) ==
    getAllArgumentsFromOperation(doc)
        \o Flatten([i \in 1..Len(doc.more) |-> getAllArgumentsFromOperation(doc.more[i])])
        \o Flatten([i \in 1..Len(doc.fragments) |->
                       getAllArgumentsFromFragment(doc.fragments[i])])

\* the names of the variables of a value node, in order
RECURSIVE getVariablesFromValueNode(_)
getVariablesFromValueNode(node) ==
    CASE node.kind = "Variable" -> <<node.value>>
      [] node.kind = "ListValue" ->
            Flatten([i \in 1..Len(node.values) |-> getVariablesFromValueNode(node.values[i])])
      [] node.kind = "ObjectValue" ->
            Flatten([i \in 1..Len(node.fields) |->
                        getVariablesFromValueNode(node.fields[i].value)])
      [] OTHER -> <<>>

getVariablesFromArguments(args) ==
    Flatten([i \in 1..Len(args) |-> getVariablesFromValueNode(args[i].value)])

\* Warning: This function may modify the document in place
removeVariableDefinitionsFromDocumentIfUnused(s, names, doc) ==
    LET query == Content(s.heap, doc)
        args == getAllArgumentsFromDocument(query)
        vs == getVariablesFromArguments(args)
        usedNames == { vs[i] : i \in 1..Len(vs) }
        filteredNames == { names[i] : i \in 1..Len(names) } \ usedNames
        Kept(d) == d \notin filteredNames
    IN  IF Len(names) < 1 THEN s
        ELSE IF filteredNames = {} THEN s
        ELSE Store(s, doc, [query EXCEPT !.variableDefinitions = SelectSeq(@, Kept)])

\* the reference cloneDeep gives the copy of the object at ref: one that
\* no object has
Fresh(h, ref) ==
    LET objects == DocRefs \cup DOMAIN h
    IN  IF Len(Documents) + ref \notin objects THEN Len(Documents) + ref
        ELSE 1 + CHOOSE i \in objects : \A j \in objects : j <= i

\* cloneDeep(doc): [s, ref], a new object with the content of the object at doc
cloneDeep(s, doc) ==
    Const({ [s |-> Store(s, new, Content(s.heap, doc)), ref |-> new] :
                new \in {Fresh(s.heap, doc)} })

\* the sequence without its element at index i
Splice(q, i) == SubSeq(q, 1, i - 1) \o SubSeq(q, i + 1, Len(q))

\* removeDirectiveFromDocument that leaves no directive on the operation
removeEveryDirective(s, doc, d) ==
    IF d = 0 THEN [s |-> s, ref |-> doc]
    ELSE Const({ [s |-> Store(copy.s, copy.ref,
                              [Content(copy.s.heap, copy.ref) EXCEPT !.directives = <<>>]),
                  ref |-> copy.ref] :
                    copy \in {cloneDeep(s, doc)} })

\* [s, ref]: the copy of the document at doc without the directive node at
\* index d of its operation (0: no directive) and without the definitions of
\* the variables only that directive used;
\* filter(node => node !== directive) compares node identity, here the index
removeDirectiveFromDocument(s, doc, d) ==
    IF d = 0 THEN [s |-> s, ref |-> doc]
    ELSE Const({
             LET directive == Content(s.heap, doc).directives[d]
                 filtered == Store(docWithoutDirective.s, docWithoutDirective.ref,
                                   [Content(docWithoutDirective.s.heap, docWithoutDirective.ref)
                                       EXCEPT !.directives =
                                           Splice(Content(s.heap, doc).directives, d)])
                 removedVariableNames == getVariablesFromArguments(directive.arguments)
             IN  [s |-> removeVariableDefinitionsFromDocumentIfUnused(
                            filtered, removedVariableNames, docWithoutDirective.ref),
                  ref |-> docWithoutDirective.ref] :
                    docWithoutDirective \in {cloneDeep(s, doc)} })

\* checkDocument(doc) of @apollo/client/utilities, [s, threw, message]: it
\* throws when the document has more than one operation definition;
\* s.validated lists the documents the handler has validated
checkDocument(s, doc) ==
    LET operations == 1 + Len(Content(s.heap, doc).more)
    IN  [s |-> [s EXCEPT !.validated = Append(@, doc)],
         threw |-> operations > 1,
         message |-> "Ambiguous GraphQL document: contains " \o ToString(operations)
                         \o " operations"]

\* index of the first argument named key of the directive, 0 when it has none
KeyArgument(directive) ==
    LET hits == { i \in 1..Len(directive.arguments) : directive.arguments[i].name = "key" }
    IN  IF hits = {} THEN 0 ELSE CHOOSE i \in hits : \A j \in hits : i <= j

\* what extractDirectiveArguments returns or throws
Extracted(s, threw, message, hasArgs, doc, args) ==
    [s |-> s, threw |-> threw, message |-> message, hasArgs |-> hasArgs,
     doc |-> doc, args |-> args]

\* extractDirectiveArguments without the cache: every call transforms the
\* document again
extractDirectiveArgumentsNoCache(s, doc) ==
    LET query == Content(s.heap, doc)
        d == extractDirective(query, DIRECTIVE_NAME)
        a == KeyArgument(query.directives[d])
        argument == query.directives[d].arguments[a]
    IN  Const({
            IF checked.threw
            THEN Extracted(checked.s, TRUE, checked.message, FALSE, doc, ListValue(<<>>))
            ELSE IF d = 0 THEN Extracted(checked.s, FALSE, "", FALSE, doc, ListValue(<<>>))
            ELSE IF a = 0
            THEN Extracted(checked.s, TRUE,
                           "The @" \o DIRECTIVE_NAME \o " directive requires a 'key' argument",
                           FALSE, doc, ListValue(<<>>))
            ELSE IF argument.value.kind # "ListValue"
            THEN Extracted(checked.s, TRUE,
                           "The @" \o DIRECTIVE_NAME
                               \o " directive's 'key' argument must be of type List, got Argument",
                           FALSE, doc, ListValue(<<>>))
            ELSE Const({
                     Extracted(removed.s, FALSE, "", TRUE, removed.ref, argument.value) :
                         removed \in {removeDirectiveFromDocument(checked.s, doc, d)} }) :
                checked \in {checkDocument(s, doc)} })

\* extractDirectiveArguments that takes a key argument that is no list as the
\* list of that one value
extractDirectiveArgumentsCoerce(s, doc) ==
    LET query == Content(s.heap, doc)
        d == extractDirective(query, DIRECTIVE_NAME)
        a == KeyArgument(query.directives[d])
        argument == query.directives[d].arguments[a]
        args == IF argument.value.kind = "ListValue" THEN argument.value
                ELSE ListValue(<<argument.value>>)
    IN  IF doc \in DOMAIN s.documentCache
        THEN Extracted(s, FALSE, "", TRUE, s.documentCache[doc].doc, s.documentCache[doc].args)
        ELSE Const({
            IF checked.threw
            THEN Extracted(checked.s, TRUE, checked.message, FALSE, doc, ListValue(<<>>))
            ELSE IF d = 0 THEN Extracted(checked.s, FALSE, "", FALSE, doc, ListValue(<<>>))
            ELSE IF a = 0
            THEN Extracted(checked.s, TRUE,
                           "The @" \o DIRECTIVE_NAME \o " directive requires a 'key' argument",
                           FALSE, doc, ListValue(<<>>))
            ELSE Const({
                     Extracted([removed.s EXCEPT !.documentCache =
                                    [r \in DOMAIN @ \cup {doc} |->
                                        IF r = doc THEN [doc |-> removed.ref, args |-> args]
                                        ELSE @[r]]],
                               FALSE, "", TRUE, removed.ref, args) :
                         removed \in {removeDirectiveFromDocument(checked.s, doc, d)} }) :
                checked \in {checkDocument(s, doc)} })

\* [s, threw, message, hasArgs, doc, args]: the document without the
\* directive and the value of its key argument, from the cache of transformed
\* documents when the document is in it
extractDirectiveArguments(s, doc) ==
    LET query == Content(s.heap, doc)
        d == extractDirective(query, DIRECTIVE_NAME)
        a == KeyArgument(query.directives[d])
        argument == query.directives[d].arguments[a]
    IN  IF doc \in DOMAIN s.documentCache
        THEN Extracted(s, FALSE, "", TRUE, s.documentCache[doc].doc, s.documentCache[doc].args)
        ELSE Const({
            IF checked.threw
            THEN Extracted(checked.s, TRUE, checked.message, FALSE, doc, ListValue(<<>>))
            ELSE IF d = 0 THEN Extracted(checked.s, FALSE, "", FALSE, doc, ListValue(<<>>))
            ELSE IF a = 0
            THEN Extracted(checked.s, TRUE,
                           "The @" \o DIRECTIVE_NAME \o " directive requires a 'key' argument",
                           FALSE, doc, ListValue(<<>>))
            ELSE IF argument.value.kind # "ListValue"
            THEN Extracted(checked.s, TRUE,
                           "The @" \o DIRECTIVE_NAME
                               \o " directive's 'key' argument must be of type List, got Argument",
                           FALSE, doc, ListValue(<<>>))
            ELSE Const({
                     Extracted([removed.s EXCEPT !.documentCache =
                                    [r \in DOMAIN @ \cup {doc} |->
                                        IF r = doc
                                        THEN [doc |-> removed.ref, args |-> argument.value]
                                        ELSE @[r]]],
                               FALSE, "", TRUE, removed.ref, argument.value) :
                         removed \in {removeDirectiveFromDocument(checked.s, doc, d)} }) :
                checked \in {checkDocument(s, doc)} })

\* what extractKey returns or throws; created: the operation is a new object
\* made by createOperation, not the one extractKey was given
Outcome(s, threw, message, operation, created, key) ==
    [s |-> s, threw |-> threw, message |-> message, operation |-> operation,
     created |-> created, key |-> key]

\* current revision
extractKeyCurrent(s, operation) ==
    IF Truthy(operation.serializationKey)
    THEN Outcome(s, FALSE, "", operation, FALSE, operation.serializationKey)
    ELSE Const({
         LET mk == materializeKey(ex.args, operation.variables)
         IN  IF ex.threw THEN Outcome(ex.s, TRUE, ex.message, operation, FALSE, Undefined)
             ELSE IF ~ex.hasArgs THEN Outcome(ex.s, FALSE, "", operation, FALSE, Undefined)
             ELSE IF mk.threw THEN Outcome(ex.s, TRUE, mk.message, operation, FALSE, Undefined)
             ELSE Outcome(ex.s, FALSE, "", [operation EXCEPT !.query = ex.doc], TRUE, mk.key) :
             ex \in {extractDirectiveArguments(s, operation.query)} })

\* the directives whose name is not the given one, in order
WithoutName(directives, name) ==
    LET Other(node) == node.name # name
    IN  SelectSeq(directives, Other)

\* apollo-utilities removeDirectivesFromDocument([{name: 'serialize'}], doc)
\* on a document that has no such directive in its selections: a deep copy
removeDirectivesFromDocument(s, doc) == cloneDeep(s, doc)

\* legacy revision: no cache; the directives of the operation's own document
\* are filtered before the key is materialized (the copy made before that is
\* not used and not kept here)
extractKeyLegacy(s, operation) ==
    LET query == Content(s.heap, operation.query)
        d == extractDirective(query, DIRECTIVE_NAME)
        a == KeyArgument(query.directives[d])
        argument == query.directives[d].arguments[a]
        checked == checkDocument(s, operation.query)
        filtered == Store(checked.s, operation.query,
                          [query EXCEPT !.directives = WithoutName(@, DIRECTIVE_NAME)])
        mk == materializeKey(argument.value, operation.variables)
    IN  IF Truthy(operation.serializationKey)
        THEN Outcome(s, FALSE, "", operation, FALSE, operation.serializationKey)
        ELSE IF checked.threw
        THEN Outcome(checked.s, TRUE, checked.message, operation, FALSE, Undefined)
        ELSE IF d = 0 THEN Outcome(checked.s, FALSE, "", operation, FALSE, Undefined)
        ELSE IF a = 0
        THEN Outcome(checked.s, TRUE,
                     "The @" \o DIRECTIVE_NAME \o " directive requires a 'key' argument",
                     operation, FALSE, Undefined)
        ELSE IF argument.value.kind # "ListValue"
        THEN Outcome(checked.s, TRUE,
                     "The @" \o DIRECTIVE_NAME
                         \o " directive's 'key' argument must be of type List, got Argument",
                     operation, FALSE, Undefined)
        ELSE IF mk.threw THEN Outcome(filtered, TRUE, mk.message, operation, FALSE, Undefined)
        ELSE Const({ Outcome(removed.s, FALSE, "", [operation EXCEPT !.query = removed.ref],
                             TRUE, mk.key) :
                         removed \in {removeDirectivesFromDocument(filtered, operation.query)} })

\* extractKey that looks at the directive before the context
extractKeyDirectiveFirst(s, operation) ==
    IF extractDirective(Content(s.heap, operation.query), DIRECTIVE_NAME) # 0
    THEN extractKeyCurrent(s, [operation EXCEPT !.serializationKey = Undefined])
    ELSE extractKeyCurrent(s, operation)

\* extractKey that gives the new operation only the bindings of the
\* variables its document still defines
extractKeyPrunesBindings(s, operation) ==
    Const({ IF ~r.created THEN r
            ELSE [r EXCEPT !.operation.variables.own =
                      [x \in DOMAIN @ \cap { Content(r.s.heap, r.operation.query)
                                                .variableDefinitions[i] :
                                            i \in 1..Len(Content(r.s.heap, r.operation.query)
                                                             .variableDefinitions) }
                          |-> @[x]]] :
                r \in {extractKeyCurrent(s, operation)} })

\* extractKey that returns a new operation object in every case
extractKeyAlwaysCreates(s, operation) ==
    Const({ IF r.threw THEN r ELSE [r EXCEPT !.created = TRUE] :
                r \in {extractKeyCurrent(s, operation)} })

\* [s, threw, message, operation, created, key]; key is Undefined when the
\* operation has none
extractKey(s, operation) ==
    IF revision = "legacy"
    THEN extractKeyLegacy(s, operation)
    ELSE extractKeyCurrent(s, operation)

----------------------------------------------------------------------------
(* SerializingLink: queue entries and result streams *)

\* OperationQueueEntry {operation, forward, observer, subscription}: one
\* entry per subscription of a caller, so operation and observer are both
\* identified by the operation's id; forward is the same function for all.
Entry(o) == [operation |-> o, observer |-> o, subscription |-> NoSub]

\* opQueues[key] is defined
HasQueue(q, key) == key \in DOMAIN q

\* opQueues is a plain object ({}): for a key that is the name of a property
\* of Object.prototype and has no queue, opQueues[key] is the inherited
\* value (a function, or the prototype itself), which is truthy and has no
\* method push
Inherited(q, key) == ~HasQueue(q, key) /\ key \in ObjectPrototype \cup {"__proto__"}

----------------------------------------------------------------------------
(* Result streams (zen-observable) *)

\* the downstream result stream of operation o is subscribed: an execution
\* starts; the subscription handle is the number of the start. A stream that
\* emits while it is being subscribed calls the observer before subscribe()
\* returns.
RECURSIVE emit(_, _)
subscribe(s, o) ==
    Const({ IF s.ops[o].emits THEN emit(running, o) ELSE running :
                running \in {[s EXCEPT !.down[o] = [state |-> "running",
                                                    starts |-> s.down[o].starts + 1]]} })

\* subscription.unsubscribe() of the downstream execution of o: a
\* subscription that has already ended (completed, errored, unsubscribed) is
\* left as it is
unsubscribe(s, o) ==
    IF s.down[o].state = "running"
    THEN Did([s EXCEPT !.down[o].state = "closed"], "unsubscribe", o, s.ops[o].key)
    ELSE s

\* forward(operation): the downstream executor is invoked for operation o
forward(s, o) == Did(s, "forward", o, s.ops[o].key)

----------------------------------------------------------------------------
(* SerializingLink *)

\* entry.subscription = handle, for the entry object of operation o: the
\* object is the one that was at the head of the queue of the key before
\* forward(operation).subscribe(...) was called, wherever it is by now
Recorded(s, key, o, handle) ==
    IF ~HasQueue(s.opQueues, key) THEN s
    ELSE [s EXCEPT !.opQueues[key] =
              [i \in 1..Len(@) |-> IF @[i].observer = o
                                   THEN [@[i] EXCEPT !.subscription = handle]
                                   ELSE @[i]]]

\* startFirstOpIfNotStarted that empties the whole map when the queue of the
\* key is empty
startFirstOpClearsMap(s, key) ==
    IF Len(s.opQueues[key]) = 0
    THEN Did([s EXCEPT !.opQueues = [k \in {} |-> <<>>]], "delete", 0, key)
    ELSE IF s.opQueues[key][1].subscription # NoSub THEN s
    ELSE LET operation == s.opQueues[key][1].operation
             started == subscribe(forward(s, operation), operation)
         IN  [started EXCEPT !.opQueues[key][1].subscription = started.down[operation].starts]

\* startFirstOpIfNotStarted that starts the newest entry of the queue
startLastOp(s, key) ==
    IF Len(s.opQueues[key]) = 0
    THEN Did([s EXCEPT !.opQueues = [k \in DOMAIN s.opQueues \ {key} |-> s.opQueues[k]]],
             "delete", 0, key)
    ELSE IF s.opQueues[key][1].subscription # NoSub THEN s
    ELSE LET last == Len(s.opQueues[key])
             operation == s.opQueues[key][last].operation
             started == subscribe(forward(s, operation), operation)
         IN  [started EXCEPT !.opQueues[key][last].subscription =
                                 started.down[operation].starts]

\* startFirstOpIfNotStarted that keeps the empty queue in the map
startFirstOpNoDelete(s, key) ==
    IF Len(s.opQueues[key]) = 0 THEN s
    ELSE IF s.opQueues[key][1].subscription # NoSub THEN s
    ELSE LET operation == s.opQueues[key][1].operation
             started == subscribe(forward(s, operation), operation)
         IN  [started EXCEPT !.opQueues[key][1].subscription = started.down[operation].starts]

\* startFirstOpIfNotStarted without the test of the head's subscription
startFirstOpAlways(s, key) ==
    IF Len(s.opQueues[key]) = 0
    THEN Did([s EXCEPT !.opQueues = [k \in DOMAIN s.opQueues \ {key} |-> s.opQueues[k]]],
             "delete", 0, key)
    ELSE LET operation == s.opQueues[key][1].operation
             started == subscribe(forward(s, operation), operation)
         IN  [started EXCEPT !.opQueues[key][1].subscription = started.down[operation].starts]

\* Start the first operation in the queue if it hasn't been started yet
startFirstOpIfNotStarted(s, key) ==
    IF Len(s.opQueues[key]) = 0
    THEN Did([s EXCEPT !.opQueues = [k \in DOMAIN s.opQueues \ {key} |-> s.opQueues[k]]],
             "delete", 0, key)
    ELSE IF s.opQueues[key][1].subscription # NoSub THEN s
    ELSE Const({ Recorded(subscribe(forward(s, operation), operation), key, operation,
                          s.down[operation].starts + 1) :
                     operation \in {s.opQueues[key][1].operation} })

\* enqueue that adds the entry and starts nothing
enqueueOnly(s, key, entry) ==
    LET created == IF ~HasQueue(s.opQueues, key)
                   THEN [s EXCEPT !.opQueues =
                            [k \in DOMAIN s.opQueues \cup {key} |->
                                IF k = key THEN <<>> ELSE s.opQueues[k]]]
                   ELSE s
    IN  Did([created EXCEPT !.opQueues[key] = Append(@, entry)],
            "enqueue", entry.operation, key)

\* enqueue that starts the entry it adds, whatever is ahead of it
enqueueStartsEach(s, key, entry) ==
    LET created == IF ~HasQueue(s.opQueues, key)
                   THEN [s EXCEPT !.opQueues =
                            [k \in DOMAIN s.opQueues \cup {key} |->
                                IF k = key THEN <<>> ELSE s.opQueues[k]]]
                   ELSE s
        pushed == Did([created EXCEPT !.opQueues[key] = Append(@, entry)],
                      "enqueue", entry.operation, key)
        started == subscribe(forward(pushed, entry.operation), entry.operation)
    IN  [started EXCEPT !.opQueues[key][Len(pushed.opQueues[key])].subscription =
                            started.down[entry.operation].starts]

\* enqueue with the entry put at the front of the queue (unshift for push)
enqueueUnshift(s, key, entry) ==
    LET created == IF ~HasQueue(s.opQueues, key)
                   THEN [s EXCEPT !.opQueues =
                            [k \in DOMAIN s.opQueues \cup {key} |->
                                IF k = key THEN <<>> ELSE s.opQueues[k]]]
                   ELSE s
        pushed == Did([created EXCEPT !.opQueues[key] = <<entry>> \o @],
                      "enqueue", entry.operation, key)
    IN  IF Len(pushed.opQueues[key]) = 1
        THEN startFirstOpIfNotStarted(pushed, key)
        ELSE pushed

\* enqueue that starts the first operation only when no key has a queue yet
\* (one queue for all keys)
enqueueGlobal(s, key, entry) ==
    LET created == IF ~HasQueue(s.opQueues, key)
                   THEN [s EXCEPT !.opQueues =
                            [k \in DOMAIN s.opQueues \cup {key} |->
                                IF k = key THEN <<>> ELSE s.opQueues[k]]]
                   ELSE s
        pushed == Did([created EXCEPT !.opQueues[key] = Append(@, entry)],
                      "enqueue", entry.operation, key)
    IN  IF DOMAIN s.opQueues = {}
        THEN startFirstOpIfNotStarted(pushed, key)
        ELSE pushed

\* Add an operation to the end of the queue. If it is the first operation in
\* the queue, start it.
enqueue(s, key, entry) ==
    IF Inherited(s.opQueues, key)
    THEN Did([s EXCEPT !.ops[entry.operation].status = "failed"],
             "TypeError", entry.operation, key)
    ELSE
    LET created == IF ~HasQueue(s.opQueues, key)
                   THEN [s EXCEPT !.opQueues =
                            [k \in DOMAIN s.opQueues \cup {key} |->
                                IF k = key THEN <<>> ELSE s.opQueues[k]]]
                   ELSE s
        pushed == Did([created EXCEPT !.opQueues[key] = Append(@, entry)],
                      "enqueue", entry.operation, key)
    IN  IF Len(pushed.opQueues[key]) = 1
        THEN startFirstOpIfNotStarted(pushed, key)
        ELSE pushed

\* the entries of q whose observer is not the given one, in order
RECURSIVE WithoutObserver(_, _)
WithoutObserver(q, observer) ==
    IF q = <<>> THEN <<>>
    ELSE IF Head(q).observer = observer THEN WithoutObserver(Tail(q), observer)
    ELSE <<Head(q)>> \o WithoutObserver(Tail(q), observer)

\* current revision: cancel by the identity of the entry
cancelOpCurrent(s, key, entryToRemove) ==
    IF ~HasQueue(s.opQueues, key) THEN s
    ELSE
    LET q == s.opQueues[key]
        found == { i \in 1..Len(q) : q[i].observer = entryToRemove.observer }
        idx == IF found = {} THEN 0 ELSE CHOOSE i \in found : \A j \in found : i <= j
        stopped == IF idx > 0 /\ q[idx].subscription # NoSub
                   THEN unsubscribe(s, q[idx].operation)
                   ELSE s
        removed == IF idx > 0
                   THEN Did([stopped EXCEPT !.opQueues[key] = Splice(@, idx)],
                            "remove", q[idx].operation, key)
                   ELSE stopped
    IN  startFirstOpIfNotStarted(removed, key)

\* legacy revision: filter the queue, unsubscribing every entry that matches
\* operation, forward and observer (entries from index i on)
RECURSIVE CancelFilter(_, _, _, _)
CancelFilter(s, key, entryToRemove, i) ==
    IF i > Len(s.opQueues[key]) THEN s
    ELSE LET entry == s.opQueues[key][i]
         IN  IF entry.operation = entryToRemove.operation
                /\ entry.observer = entryToRemove.observer
             THEN LET stopped == IF entry.subscription # NoSub
                                 THEN unsubscribe(s, entry.operation)
                                 ELSE s
                  IN  CancelFilter(Did([stopped EXCEPT !.opQueues[key] = Splice(@, i)],
                                       "remove", entry.operation, key),
                                   key, entryToRemove, i)
             ELSE CancelFilter(s, key, entryToRemove, i + 1)

cancelOpLegacy(s, key, entryToRemove) ==
    IF ~HasQueue(s.opQueues, key) THEN s
    ELSE startFirstOpIfNotStarted(CancelFilter(s, key, entryToRemove, 1), key)

\* cancelOp without the test idx >= 0: splice(-1, 1) removes the last entry
\* of the queue when the entry is not found
cancelOpSplicesLast(s, key, entryToRemove) ==
    IF ~HasQueue(s.opQueues, key) THEN s
    ELSE
    LET q == s.opQueues[key]
        found == { i \in 1..Len(q) : q[i].observer = entryToRemove.observer }
        idx == IF found = {} THEN Len(q) ELSE CHOOSE i \in found : \A j \in found : i <= j
        stopped == IF q[idx].subscription # NoSub
                   THEN unsubscribe(s, q[idx].operation)
                   ELSE s
        removed == Did([stopped EXCEPT !.opQueues[key] = Splice(@, idx)],
                       "remove", q[idx].operation, key)
    IN  startFirstOpIfNotStarted(removed, key)

\* cancelOp that completes the observer of the entry it removes
cancelOpNotifies(s, key, entryToRemove) ==
    LET cancelled == IF version = "legacy"
                     THEN cancelOpLegacy(s, key, entryToRemove)
                     ELSE cancelOpCurrent(s, key, entryToRemove)
    IN  Did([cancelled EXCEPT !.received =
                Append(@, [op |-> entryToRemove.observer, type |-> "complete", value |-> ""])],
            "complete", entryToRemove.observer, key)

\* cancelOp that handles only an entry whose execution has been started: an
\* entry that waits stays in the queue
cancelOpOnlyInFlight(s, key, entryToRemove) ==
    IF ~HasQueue(s.opQueues, key) THEN s
    ELSE LET q == s.opQueues[key]
             found == { i \in 1..Len(q) : q[i].observer = entryToRemove.observer
                                            /\ q[i].subscription # NoSub }
         IN  IF found = {} THEN s
             ELSE LET idx == CHOOSE i \in found : TRUE
                  IN  startFirstOpIfNotStarted(
                          Did([unsubscribe(s, q[idx].operation)
                                  EXCEPT !.opQueues[key] = Splice(@, idx)],
                              "remove", q[idx].operation, key),
                          key)

\* cancelOp that removes the entry and leaves its downstream execution running
cancelOpNoUnsubscribe(s, key, entryToRemove) ==
    IF ~HasQueue(s.opQueues, key) THEN s
    ELSE LET q == s.opQueues[key]
             kept == WithoutObserver(q, entryToRemove.observer)
             removed == IF kept = q THEN s
                        ELSE Did([s EXCEPT !.opQueues[key] = kept],
                                 "remove", entryToRemove.operation, key)
         IN  startFirstOpIfNotStarted(removed, key)

\* cancelOp that unsubscribes the entry and leaves it in the queue
cancelOpKeepsEntry(s, key, entryToRemove) ==
    IF ~HasQueue(s.opQueues, key) THEN s
    ELSE LET q == s.opQueues[key]
             found == { i \in 1..Len(q) : q[i].observer = entryToRemove.observer }
             stopped == IF \E i \in found : q[i].subscription # NoSub
                        THEN unsubscribe(s, entryToRemove.operation)
                        ELSE s
         IN  startFirstOpIfNotStarted(stopped, key)

\* cancelOp without the final startFirstOpIfNotStarted(key)
cancelOpNoAdvance(s, key, entryToRemove) ==
    IF ~HasQueue(s.opQueues, key) THEN s
    ELSE LET q == s.opQueues[key]
             kept == WithoutObserver(q, entryToRemove.observer)
             stopped == IF kept # q /\ s.down[entryToRemove.operation].state = "running"
                        THEN unsubscribe(s, entryToRemove.operation)
                        ELSE s
         IN  IF kept = q THEN s
             ELSE Did([stopped EXCEPT !.opQueues[key] = kept],
                      "remove", entryToRemove.operation, key)

\* Cancel the operation by removing it from the queue and unsubscribing if
\* it is currently in progress.
cancelOp(s, key, entryToRemove) ==
    IF version = "legacy"
    THEN cancelOpLegacy(s, key, entryToRemove)
    ELSE cancelOpCurrent(s, key, entryToRemove)

\* legacy revision: Remove the first element from the queue and start the
\* next operation
dequeue(s, key, observer) ==
    IF ~HasQueue(s.opQueues, key) THEN s
    ELSE LET q == s.opQueues[key]
             kept == WithoutObserver(q, observer)
             filtered == IF kept = q THEN s
                         ELSE Did([s EXCEPT !.opQueues[key] = kept], "remove", observer, key)
         IN  startFirstOpIfNotStarted(filtered, key)

----------------------------------------------------------------------------
(* The result stream request() returns for a keyed operation               *)

\* an Observable whose subscriber returns no teardown
teardownNothing(s, key, o) == s

\* the function returned to the Observable as its teardown:
\* () => { this.cancelOp(key, entry) }
teardown(s, key, o) == cancelOp(s, key, Entry(o))

\* what an observer receives: the type of the event and its value
Event(o, type, value) == [op |-> o, type |-> type, value |-> value]

\* no event
NoEvent == Event(0, "none", "")

\* the caller's observer receives an event (next, error, complete) with the
\* value the handler was called with
deliver(s, o, type) ==
    Did([s EXCEPT !.received = Append(@, Event(o, type, s.emitted.value))],
        type, o, s.ops[o].key)

\* the caller's next callback of operation o has been called: it does
\* nothing more, or it unsubscribes from the stream of another operation, or
\* it subscribes to the stream request() returned for another operation
RECURSIVE subscriber(_, _, _)
callback(s, o) ==
    LET p == s.ops[o].onNext.op
    IN  CASE s.ops[o].onNext.do = "cancel" /\ s.ops[p].status = "subscribed" ->
                Const({ IF s.ops[p].stream = "queued"
                        THEN teardown(closed, s.ops[p].key, p)
                        ELSE unsubscribe(closed, p) :
                            closed \in {Did([s EXCEPT !.ops[p].status = "closed"],
                                            "cancel", p, s.ops[p].key)} })
          [] s.ops[o].onNext.do = "subscribe" /\ s.ops[p].status = "returned" ->
                Const({ IF subscribed.ops[p].status = "subscribing"
                        THEN [subscribed EXCEPT !.ops[p].status = "subscribed"]
                        ELSE subscribed :
                            subscribed \in {
                                LET subscribing ==
                                        [s EXCEPT !.ops[p].status = "subscribing",
                                                  !.ops[p].ticket =
                                                      1 + Cardinality({ q \in DOMAIN s.ops :
                                                                          s.ops[q].ticket > 0 })]
                                IN  IF s.ops[p].stream = "queued"
                                    THEN subscriber(subscribing, s.ops[p].key, p)
                                    ELSE subscribe(subscribing, p) } })
          [] OTHER -> s

\* observer.next(v) on the stream's observer: dropped once the caller's
\* subscription is closed
observerNext(s, key, o) ==
    IF s.ops[o].status \notin {"subscribing", "subscribed"} THEN s
    ELSE callback(deliver(s, o, "next"), o)

\* observer.error(e) and observer.complete() of an Observable that runs no
\* teardown when the stream ends
observerTerminalNoTeardown(s, key, o, type) ==
    IF s.ops[o].status # "subscribed" THEN s
    ELSE deliver([s EXCEPT !.ops[o].status = "closed"], o, type)

\* observer.error(e) and observer.complete(): the subscription is closed, the
\* caller's observer is notified, then the teardown runs
observerTerminal(s, key, o, type) ==
    IF s.ops[o].status # "subscribed" THEN s
    ELSE teardown(deliver([s EXCEPT !.ops[o].status = "closed"], o, type), key, o)

\* a next handler that hands the value to the observer of the last entry of
\* the queue
onNextToLast(s, key, o) ==
    observerNext(s, key, s.opQueues[key][Len(s.opQueues[key])].observer)

\* the observer startFirstOpIfNotStarted subscribes downstream with
onNext(s, key, o) == observerNext(s, key, o)

onError(s, key, o) ==
    LET notified == observerTerminal(s, key, o, "error")
    IN  IF version = "legacy" THEN dequeue(notified, key, o) ELSE notified

\* a complete handler that dequeues before it notifies the observer
onCompleteDequeueFirst(s, key, o) ==
    observerTerminal(dequeue(s, key, o), key, o, "complete")

onComplete(s, key, o) ==
    LET notified == observerTerminal(s, key, o, "complete")
    IN  IF version = "legacy" THEN dequeue(notified, key, o) ELSE notified

\* the subscriber function of the Observable request() returns: it runs when
\* the caller subscribes
subscriber(s, key, o) == enqueue(s, key, Entry(o))

\* the downstream stream of o emits a value while it is being subscribed:
\* the next handler it is subscribed with runs before subscribe() returns
emit(s, o) ==
    Const({ [after EXCEPT !.emitted = s.emitted] :
                after \in { IF s.ops[o].stream = "queued"
                            THEN onNext([s EXCEPT !.emitted = Event(o, "next", "one")],
                                        s.ops[o].key, o)
                            ELSE callback(deliver([s EXCEPT !.emitted = Event(o, "next", "one")],
                                                  o, "next"), o) } })

\* the operation and its key as request() obtains them: from extractKey, and in
\* the legacy revision from the context alone
resolve(s, operation) ==
    IF version = "legacy"
    THEN Outcome(s, FALSE, "", operation, FALSE, operation.serializationKey)
    ELSE extractKey(s, operation)

\* request() that enqueues the operation when it is called, before the
\* stream it returns is subscribed
requestEnqueues(s, o, operation) ==
    Const({
    LET called == [r.s EXCEPT !.ops[o].operation = operation]
    IN  IF r.threw
        THEN Did([called EXCEPT !.ops[o].status = "threw"], "throw", o, Undefined)
        ELSE IF ~Truthy(r.key)
        THEN forward([called EXCEPT !.ops[o].status = "returned",
                                    !.ops[o].stream = "downstream",
                                    !.ops[o].forwarded = r.operation], o)
        ELSE subscriber(Did([called EXCEPT !.ops[o].status = "returned",
                                           !.ops[o].stream = "queued",
                                           !.ops[o].forwarded = r.operation,
                                           !.ops[o].key = r.key],
                            "observable", o, r.key),
                        r.key, o) :
        r \in {resolve(s, operation)} })

\* request() that catches the error of extractKey and hands the operation to
\* the downstream executor
requestCatches(s, o, operation) ==
    Const({
    LET called == [r.s EXCEPT !.ops[o].operation = operation]
    IN  IF r.threw \/ ~Truthy(r.key)
        THEN forward([called EXCEPT !.ops[o].status = "returned",
                                    !.ops[o].stream = "downstream",
                                    !.ops[o].forwarded = r.operation], o)
        ELSE Did([called EXCEPT !.ops[o].status = "returned",
                                !.ops[o].stream = "queued",
                                !.ops[o].forwarded = r.operation,
                                !.ops[o].key = r.key],
                 "observable", o, r.key) :
        r \in {resolve(s, operation)} })

\* request() without the test of the key: every operation is queued
requestAlwaysQueued(s, o, operation) ==
    Const({
    LET called == [r.s EXCEPT !.ops[o].operation = operation]
    IN  IF r.threw
        THEN Did([called EXCEPT !.ops[o].status = "threw"], "throw", o, Undefined)
        ELSE Did([called EXCEPT !.ops[o].status = "returned",
                                !.ops[o].stream = "queued",
                                !.ops[o].forwarded = r.operation,
                                !.ops[o].key = r.key],
                 "observable", o, r.key) :
        r \in {resolve(s, operation)} })

\* request(operation, forward) for the operation with id o: throws, or
\* returns the downstream stream forward(operation), or returns an
\* Observable that enqueues when it is subscribed
request(s, o, operation) ==
    Const({
    LET called == [r.s EXCEPT !.ops[o].operation = operation]
    IN  IF r.threw
        THEN Did([called EXCEPT !.ops[o].status = "threw"], "throw", o, Undefined)
        ELSE IF ~Truthy(r.key)
        THEN forward([called EXCEPT !.ops[o].status = "returned",
                                    !.ops[o].stream = "downstream",
                                    !.ops[o].forwarded = r.operation], o)
        ELSE Did([called EXCEPT !.ops[o].status = "returned",
                                !.ops[o].stream = "queued",
                                !.ops[o].forwarded = r.operation,
                                !.ops[o].key = r.key],
                 "observable", o, r.key) :
        r \in {resolve(s, operation)} })

----------------------------------------------------------------------------
(* State *)

\* what the next callback of a caller's observer does: do is "nothing",
\* "cancel" or "subscribe", op the operation whose stream it acts on
Reaction(do, p) == [do |-> do, op |-> p]
Nothing == Reaction("nothing", 0)

\* an operation before request(): ticket is the rank of its subscription
\* among the subscriptions of the run (0: not subscribed)
NewOp == [status |-> "new", stream |-> "none",
          operation |-> Operation(Undefined, Ref(PlainDoc), NoVariables),
          forwarded |-> Operation(Undefined, Ref(PlainDoc), NoVariables),
          key |-> Undefined, ticket |-> 0,
          emits |-> FALSE, onNext |-> Nothing]

\* extractKey has not been called
NoCall ==
    [made |-> FALSE, number |-> 0,
     operation |-> Operation(Undefined, Ref(PlainDoc), NoVariables),
     threw |-> FALSE, message |-> "",
     returned |-> Operation(Undefined, Ref(PlainDoc), NoVariables),
     created |-> FALSE, key |-> Undefined,
     first |-> [q \in {} |-> [query |-> q, key |-> Undefined]],
     validated |-> <<>>, checked |-> {}]

\* the state after the modules are loaded and the link is constructed
Constructed ==
    /\ opQueues = [k \in {} |-> <<>>]
    /\ down = [o \in OpIds |-> [state |-> "none", starts |-> 0]]
    /\ ops = [o \in OpIds |-> NewOp]
    /\ effects = <<>>
    /\ emitted = NoEvent
    /\ received = <<>>
    /\ heap = [r \in {} |-> PlainDoc]
    /\ documentCache = [r \in {} |-> 0]
    /\ call = NoCall

Init ==
    /\ version \in {"legacy", "current"}
    /\ revision = "current"
    /\ Constructed

\* the state a handler starts from, and the state it leaves
Now ==
    [opQueues |-> opQueues, down |-> down, ops |-> ops, effects |-> <<>>,
     emitted |-> NoEvent, received |-> <<>>,
     heap |-> heap, documentCache |-> documentCache, validated |-> <<>>]

Becomes(s) ==
    /\ opQueues' = s.opQueues
    /\ down' = s.down
    /\ ops' = s.ops
    /\ effects' = s.effects
    /\ emitted' = s.emitted
    /\ received' = s.received
    /\ heap' = s.heap
    /\ documentCache' = s.documentCache
    /\ UNCHANGED <<version, revision, call>>

Subscribed == { o \in OpIds : ops[o].ticket > 0 }

----------------------------------------------------------------------------
(* Actions *)

\* subscribe() has returned to the caller: the subscription is open unless
\* it was closed meanwhile
Ready(s, o) ==
    IF s.ops[o].status = "subscribing" THEN [s EXCEPT !.ops[o].status = "subscribed"] ELSE s

\* a caller calls link.request(operation, forward)
Request(o, operation) ==
    /\ ops[o].status = "new"
    /\ Becomes(request(Now, o, operation))

\* the caller subscribes to the stream request() returned; operations are
\* numbered in the order of their subscription
Subscribe(o) ==
    /\ ops[o].status = "returned"
    /\ \A p \in OpIds : p < o => ops[p].ticket > 0
    /\ LET s == [Now EXCEPT !.ops[o].status = "subscribing",
                            !.ops[o].ticket = Cardinality(Subscribed) + 1]
       IN  IF ops[o].stream = "queued"
           THEN Becomes(Ready(subscriber(s, ops[o].key, o), o))
           ELSE Becomes(Ready(subscribe(s, o), o))

\* the values a downstream execution emits, and the errors it fails with
Values == {"one", "two"}
Errors == {"oops"}

\* the downstream execution of o emits a value
DownstreamNext(o, value) ==
    /\ down[o].state = "running"
    /\ LET s == [Now EXCEPT !.emitted = Event(o, "next", value)]
       IN  IF ops[o].stream = "queued"
           THEN Becomes(onNext(s, ops[o].key, o))
           ELSE Becomes(callback(deliver(s, o, "next"), o))

\* the downstream execution of o ends with an error
DownstreamError(o, value) ==
    /\ down[o].state = "running"
    /\ LET s == [Now EXCEPT !.down[o].state = "closed",
                            !.emitted = Event(o, "error", value)]
       IN  IF ops[o].stream = "queued"
           THEN Becomes(onError(s, ops[o].key, o))
           ELSE Becomes(deliver([s EXCEPT !.ops[o].status = "closed"], o, "error"))

\* the downstream execution of o completes
DownstreamComplete(o) ==
    /\ down[o].state = "running"
    /\ LET s == [Now EXCEPT !.down[o].state = "closed",
                            !.emitted = Event(o, "complete", "")]
       IN  IF ops[o].stream = "queued"
           THEN Becomes(onComplete(s, ops[o].key, o))
           ELSE Becomes(deliver([s EXCEPT !.ops[o].status = "closed"], o, "complete"))

\* the caller unsubscribes from the stream request() returned
Unsubscribe(o) ==
    /\ ops[o].status = "subscribed"
    /\ LET s == Did([Now EXCEPT !.ops[o].status = "closed"], "cancel", o, ops[o].key)
       IN  IF ops[o].stream = "queued"
           THEN Becomes(teardown(s, ops[o].key, o))
           ELSE Becomes(unsubscribe(s, o))

Next ==
    \/ \E o \in OpIds, operation \in Operations : Request(o, operation)
    \/ \E o \in OpIds : Subscribe(o)
    \/ \E o \in OpIds, value \in Values : DownstreamNext(o, value)
    \/ \E o \in OpIds, value \in Errors : DownstreamError(o, value)
    \/ \E o \in OpIds : DownstreamComplete(o)
    \/ \E o \in OpIds : Unsubscribe(o)

Spec == Init /\ [][Next]_vars

----------------------------------------------------------------------------
(* Vocabulary of the properties *)

\* operation o went through the queue of its key
Keyed(o) == ops[o].stream = "queued"

SameKey(a, b) == Keyed(a) /\ Keyed(b) /\ ops[a].key = ops[b].key

\* o has an entry in the queue of key k
InQueueOf(o, k) ==
    HasQueue(opQueues, k) /\ \E i \in 1..Len(opQueues[k]) : opQueues[k][i].operation = o

InQueue(o) == \E k \in DOMAIN opQueues : InQueueOf(o, k)

\* o is enqueued and the downstream executor has not been invoked for it
Waiting(o) == InQueue(o) /\ down[o].state = "none"

InFlight(o) == down[o].state = "running"

\* the downstream execution of o has ended: completed, errored or unsubscribed
Ended(o) == down[o].state = "closed"

\* the positions at which the last handler did e for operation o
Positions(e, o) == { i \in 1..Len(effects) : effects[i].e = e /\ effects[i].op = o }

Has(e, o) == Positions(e, o) # {}

\* the last handler did e for o and later f for p
Then(e, o, f, p) == \E i \in Positions(e, o), j \in Positions(f, p) : i < j

\* the last handler deleted the queue of key k
Deleted(k) == \E i \in 1..Len(effects) : effects[i].e = "delete" /\ effects[i].key = k

----------------------------------------------------------------------------
(* C1 *)

\* C1: in every reachable state, of the operations of one serialization key
\* at most one has a downstream execution that was started and has not ended.
C1_OneInFlightPerKey ==
    \A a, b \in OpIds : (SameKey(a, b) /\ InFlight(a) /\ InFlight(b)) => a = b

\* a key with an operation in flight, one waiting behind it and one that left
\* the queue by cancellation or by a terminal event
C1_Witness ==
    \E a, b, c \in OpIds :
        /\ SameKey(a, b) /\ SameKey(b, c)
        /\ ops[a].status = "closed" /\ Ended(a)
        /\ InFlight(b)
        /\ Waiting(c)

----------------------------------------------------------------------------
(* C2 *)

\* C2: of two operations of one key enqueued in the order a, b, the
\* downstream executor has been invoked for b only if the execution of a has
\* ended (completed, errored, unsubscribed) or a was cancelled before it was
\* started; so a is invoked before b and never together with it.
C2_SameKeyInOrder ==
    \A a, b \in OpIds :
        (SameKey(a, b) /\ 0 < ops[a].ticket /\ ops[a].ticket < ops[b].ticket
            /\ down[b].state # "none")
        => \/ Ended(a)
           \/ down[a].state = "none" /\ ops[a].status = "closed"

\* b was started by the terminal event of a, with a third operation waiting
C2_Witness ==
    \E a, b, c \in OpIds :
        /\ SameKey(a, b) /\ SameKey(b, c)
        /\ ops[a].ticket < ops[b].ticket /\ ops[b].ticket < ops[c].ticket
        /\ Ended(a) /\ InFlight(b) /\ Waiting(c)
        /\ Has("forward", b)
        /\ (Has("complete", a) \/ Has("error", a))

----------------------------------------------------------------------------
(* C3 *)

\* the step is the subscription of the caller of o
SubscribeStep(o) == ops[o].status = "returned" /\ ops'[o].status = "subscribed"

\* the step ends the downstream execution of o by a terminal event of that
\* execution (not by an unsubscription)
TerminalStep(o) ==
    /\ down[o].state = "running" /\ down'[o].state = "closed"
    /\ ~\E i \in 1..Len(effects') : effects'[i] = Effect("unsubscribe", o, ops[o].key)

\* C3: an operation enqueued while its key has no queue is handed to the
\* downstream executor in the step that enqueues it, whatever the other keys
\* have in flight or waiting; and a terminal event of an execution in flight
\* is delivered to its caller in the step in which it occurs, whatever is in
\* flight for other keys.
C3_OtherKeysDoNotBlock ==
    [][\A o \in OpIds :
          /\ (SubscribeStep(o) /\ Keyed(o) /\ ~HasQueue(opQueues, ops[o].key))
                => /\ down'[o] = [state |-> "running", starts |-> 1]
                   /\ effects' = <<Effect("enqueue", o, ops[o].key),
                                   Effect("forward", o, ops[o].key)>>
          /\ (TerminalStep(o) /\ Keyed(o) /\ ops[o].status = "subscribed")
                => /\ ops'[o].status = "closed"
                   /\ effects'[1].op = o /\ effects'[1].e \in {"error", "complete"}]_vars

\* two operations of different keys are in flight, a third waits behind one
\* of them, and the second was started by its own enqueue
C3_Witness ==
    \E a, b, c \in OpIds :
        /\ Keyed(a) /\ Keyed(b) /\ ops[a].key # ops[b].key
        /\ InFlight(a) /\ InFlight(b)
        /\ SameKey(a, c) /\ Waiting(c)
        /\ ops[a].ticket < ops[b].ticket
        /\ Then("enqueue", b, "forward", b)

----------------------------------------------------------------------------
(* C4 *)

\* the operation submitted as o has neither a truthy context.serializationKey
\* nor a @serialize directive
Plain(operation) ==
    /\ operation.serializationKey \in {Undefined, ""}
    /\ \A i \in 1..Len(Documents[operation.query].directives) :
          Documents[operation.query].directives[i].name # DIRECTIVE_NAME

\* C4: request() hands an operation with neither a truthy context key nor a
\* @serialize directive to the downstream executor and returns the
\* downstream stream itself; no step of such an operation (request,
\* subscription, downstream event, unsubscription) changes the key-to-queue
\* map; its execution starts when the caller subscribes, whatever is queued or
\* in flight, and each downstream event reaches the caller in the step in
\* which it occurs.
C4_NoKeyBypassesQueue ==
    [][\A o \in OpIds, operation \in Operations :
          /\ (ops[o].status = "new" /\ ops'[o].status # "new"
                /\ ops'[o].operation = operation /\ Plain(operation))
                => /\ ops'[o] = [NewOp EXCEPT !.status = "returned", !.stream = "downstream",
                                              !.operation = operation, !.forwarded = operation]
                   /\ effects' = <<Effect("forward", o, Undefined)>>
                   /\ opQueues' = opQueues
          /\ (ops[o].status # "new" /\ Plain(ops[o].operation)
                /\ (ops'[o] # ops[o] \/ down'[o] # down[o]))
                => /\ opQueues' = opQueues
                   /\ \A p \in OpIds \ {o} : down'[p] = down[p] /\ ops'[p] = ops[p]
                   /\ SubscribeStep(o) => down'[o].state = "running"
                   /\ TerminalStep(o) => ops'[o].status = "closed"
                                         /\ effects'[1].op = o
                                         /\ effects'[1].e \in {"error", "complete"}]_vars

\* an operation without key is in flight while a keyed operation is in flight
\* and another waits behind it
C4_Witness ==
    \E o, a, b \in OpIds :
        /\ ops[o].status = "subscribed" /\ Plain(ops[o].operation) /\ InFlight(o)
        /\ SameKey(a, b) /\ InFlight(a) /\ Waiting(b)
        /\ ops[a].ticket < ops[o].ticket

----------------------------------------------------------------------------
(* C5 *)

\* the head of the queue of k, if k has a queue, is in flight; if k has no
\* queue, no operation of k waits
Advanced(k) ==
    /\ HasQueue(opQueues, k) =>
          /\ Len(opQueues[k]) > 0
          /\ opQueues[k][1].subscription # NoSub
          /\ InFlight(opQueues[k][1].operation)
    /\ ~HasQueue(opQueues, k) =>
          \A p \in OpIds : ~(Keyed(p) /\ ops[p].key = k /\ ops[p].status = "subscribed")

\* C5: when the downstream execution of the head entry of a key's queue ends
\* with an error, the handler delivers the error to that entry's observer,
\* removes the entry from the queue and starts the next waiting entry of
\* that key if there is one; no operation of the key is left waiting behind
\* an entry that has failed.
C5_ErrorAdvancesQueue ==
    \A o \in OpIds :
        (Keyed(o) /\ Has("error", o))
        => /\ effects[1] = Effect("error", o, ops[o].key)
           /\ Then("error", o, "remove", o)
           /\ ~InQueue(o)
           /\ Advanced(ops[o].key)
           /\ \A p \in OpIds : Has("forward", p)
                 => /\ Then("remove", o, "forward", p)
                    /\ SameKey(o, p)
                    /\ opQueues[ops[o].key][1].operation = p

\* the head failed with two operations waiting: the older one was started
C5_Witness ==
    \E a, b, c \in OpIds :
        /\ SameKey(a, b) /\ SameKey(b, c)
        /\ Then("error", a, "remove", a)
        /\ Then("remove", a, "forward", b)
        /\ InFlight(b) /\ Waiting(c)

----------------------------------------------------------------------------
(* C6 *)

\* C6: when the downstream execution of the head entry of a key's queue
\* completes, the handler first delivers the completion to that entry's
\* observer, then removes the entry, then starts the next waiting entry of
\* the key, or deletes the key's queue when no entry remains.
C6_CompleteThenAdvance ==
    \A o \in OpIds :
        (Keyed(o) /\ Has("complete", o))
        => /\ effects[1] = Effect("complete", o, ops[o].key)
           /\ Then("complete", o, "remove", o)
           /\ ~InQueue(o)
           /\ \/ /\ Deleted(ops[o].key)
                 /\ ~HasQueue(opQueues, ops[o].key)
                 /\ ~\E p \in OpIds : Has("forward", p)
              \/ /\ ~Deleted(ops[o].key)
                 /\ HasQueue(opQueues, ops[o].key)
                 /\ \E p \in OpIds :
                       /\ Then("remove", o, "forward", p)
                       /\ opQueues[ops[o].key][1].operation = p
                       /\ InFlight(p)
                       /\ Cardinality({ i \in 1..Len(effects) : effects[i].e = "forward" }) = 1

\* the only entry of a key completed and the key was deleted, while another
\* key keeps its queue
C6_Witness ==
    \E a, b \in OpIds :
        /\ Keyed(a) /\ Keyed(b) /\ ops[a].key # ops[b].key
        /\ Then("complete", a, "remove", a)
        /\ Deleted(ops[a].key)
        /\ InQueue(b)

----------------------------------------------------------------------------
(* C7 *)

\* C7: when the caller unsubscribes from the head entry in flight, the same
\* call unsubscribes its downstream execution, removes the entry, and
\* starts the next waiting entry of the key, or deletes the key's queue
\* when no entry remains.
C7_CancelHeadAdvances ==
    \A o \in OpIds :
        (Keyed(o) /\ Has("cancel", o) /\ down[o].starts > 0)
        => /\ Ended(o)
           /\ Then("cancel", o, "unsubscribe", o)
           /\ Then("unsubscribe", o, "remove", o)
           /\ ~InQueue(o)
           /\ \/ /\ Deleted(ops[o].key)
                 /\ ~HasQueue(opQueues, ops[o].key)
                 /\ ~\E p \in OpIds : Has("forward", p)
              \/ /\ ~Deleted(ops[o].key)
                 /\ HasQueue(opQueues, ops[o].key)
                 /\ \E p \in OpIds :
                       /\ Then("remove", o, "forward", p)
                       /\ opQueues[ops[o].key][1].operation = p
                       /\ InFlight(p)

\* the head in flight was cancelled with two operations waiting
C7_Witness ==
    \E a, b, c \in OpIds :
        /\ SameKey(a, b) /\ SameKey(b, c)
        /\ Then("cancel", a, "unsubscribe", a)
        /\ Then("remove", a, "forward", b)
        /\ InFlight(b) /\ Waiting(c)

----------------------------------------------------------------------------
(* C8 *)

\* the step is the unsubscription of the caller of o
CancelStep(o) ==
    /\ ops[o].status = "subscribed" /\ ops'[o].status = "closed"
    /\ effects'[1] = Effect("cancel", o, ops[o].key)

\* C8: when the caller unsubscribes from an entry that waits behind the
\* head, the call removes that entry alone: the other entries of the queue
\* keep their order and their subscriptions, every other queue is unchanged,
\* and no downstream execution is unsubscribed or started.
C8_CancelWaitingRemovesOnlyIt ==
    [][\A o \in OpIds : \A k \in DOMAIN opQueues : \A i \in 2..Len(opQueues[k]) :
          (CancelStep(o) /\ opQueues[k][i].operation = o)
          => /\ opQueues' = [opQueues EXCEPT ![k] = Splice(@, i)]
             /\ down' = down
             /\ effects' = <<Effect("cancel", o, k), Effect("remove", o, k)>>
             /\ \A p \in OpIds \ {o} : ops'[p] = ops[p]]_vars

\* the middle one of three entries of a key was cancelled: the head is still
\* in flight and the last one still waits
C8_Witness ==
    \E a, o, c \in OpIds :
        /\ SameKey(a, o) /\ SameKey(o, c)
        /\ ops[a].ticket < ops[o].ticket /\ ops[o].ticket < ops[c].ticket
        /\ effects = <<Effect("cancel", o, ops[o].key), Effect("remove", o, ops[o].key)>>
        /\ InFlight(a) /\ Waiting(c)
        /\ opQueues[ops[o].key] = <<[operation |-> a, observer |-> a, subscription |-> 1],
                                    [operation |-> c, observer |-> c, subscription |-> NoSub]>>

----------------------------------------------------------------------------
(* C9 *)

\* C9: after every handler, no key of the key-to-queue map maps to an empty
\* queue, and a key whose last entry left is not in the map.
C9_NoEmptyQueue ==
    /\ \A k \in DOMAIN opQueues : Len(opQueues[k]) > 0
    /\ \A o \in OpIds : Has("remove", o) /\ ~(\E p \in OpIds : InQueueOf(p, ops[o].key))
                            => ~HasQueue(opQueues, ops[o].key)

\* the last entry of a key has just left while another key still has a queue
C9_Witness ==
    \E o \in OpIds :
        /\ Has("remove", o)
        /\ Deleted(ops[o].key)
        /\ ~HasQueue(opQueues, ops[o].key)
        /\ DOMAIN opQueues # {}

----------------------------------------------------------------------------
(* C10 *)

\* the runs in which every operation carries a context.serializationKey
KeyedOperations == { operation \in Operations : Truthy(extractKey(Now, operation).key) }

KeyedNext ==
    \/ \E o \in OpIds, operation \in KeyedOperations : Request(o, operation)
    \/ \E o \in OpIds : Subscribe(o)
    \/ \E o \in OpIds, value \in Values : DownstreamNext(o, value)
    \/ \E o \in OpIds, value \in Errors : DownstreamError(o, value)
    \/ \E o \in OpIds : DownstreamComplete(o)
    \/ \E o \in OpIds : Unsubscribe(o)

KeyedSpec == Init /\ [][KeyedNext]_vars

\* the proviso of C10: every downstream execution that is started ends
\* (it completes, fails or is unsubscribed)
EveryExecutionEnds == \A o \in OpIds : []<>~InFlight(o)

\* C10: provided every downstream execution that is started ends, every
\* keyed operation that is enqueued is at some time handed to the downstream
\* executor or cancelled by its caller.
C10_EnqueuedIsStartedOrCancelled ==
    EveryExecutionEnds =>
        \A o \in OpIds :
            (Keyed(o) /\ ops[o].status = "subscribed")
                ~> (down[o].state # "none" \/ ops[o].status = "closed")

\* an operation that waited behind two others is in flight: the first one
\* failed and the second one was cancelled while it waited
C10_Witness ==
    \E a, b, c \in OpIds :
        /\ SameKey(a, b) /\ SameKey(b, c)
        /\ ops[a].ticket < ops[b].ticket /\ ops[b].ticket < ops[c].ticket
        /\ Ended(a)
        /\ ops[b].status = "closed" /\ down[b].state = "none"
        /\ InFlight(c)
        /\ Then("error", a, "forward", c)

----------------------------------------------------------------------------
(* C11 *)

\* the events the last step delivered to the observer of o, in order
ReceivedBy(o) ==
    LET Own(e) == e.op = o
    IN  SelectSeq(received, Own)

\* the events the downstream execution of o emitted in the last step
EmittedBy(o) == IF emitted.op = o THEN <<emitted>> ELSE <<>>

\* C11: in every step, what the observer of a queued entry receives is what
\* that entry's own downstream execution emits in that step, with the same
\* type and value: nothing another entry's execution emits reaches it, and an
\* entry whose execution has not been started receives nothing. Step by
\* step, the sequence delivered is the sequence emitted.
C11_ObserverGetsOwnEvents ==
    \A o \in OpIds :
        Keyed(o) => /\ ReceivedBy(o) = EmittedBy(o)
                    /\ ReceivedBy(o) # <<>> => down[o].starts > 0
                    /\ down[o].state = "none" => ReceivedBy(o) = <<>>

\* the second entry of a key, started after the first one ended, receives the
\* value its execution emits while a third entry waits
C11_Witness ==
    \E a, b, c \in OpIds :
        /\ SameKey(a, b) /\ SameKey(b, c)
        /\ ops[a].ticket < ops[b].ticket /\ ops[b].ticket < ops[c].ticket
        /\ Ended(a) /\ InFlight(b) /\ Waiting(c)
        /\ emitted = Event(b, "next", "two")
        /\ received = <<Event(b, "next", "two")>>

----------------------------------------------------------------------------
(* extractKey called on its own, as the tests of the repository call it *)

\* the variable bindings of the operations
AllBound ==
    Variables([x \in {"v", "key", "foo", "id", "oid"} |->
                  CASE x = "v" -> JsString("bar")
                    [] x = "key" -> JsString("a")
                    [] x = "foo" -> JsNumber(7)
                    [] x = "id" -> JsNumber(123)
                    [] x = "oid" -> JsString("foo")])

Bindings ==
    { NoVariables, Variables(EmptyObject), Bind("v", JsString("x")),
      Bind("v", JsBoolean(TRUE)), AllBound }

\* the operations extractKey is called with
KeyOperations ==
    { Operation(Undefined, q, vs) : q \in DocRefs, vs \in Bindings }
        \cup { Operation(k, q, NoVariables) : k \in {"", "foo"}, q \in DocRefs }
        \cup { Named(Operation(Undefined, Ref(TwoOperationsDoc), NoVariables), n) :
                   n \in {"first", "second"} }

\* what the caller keeps of the first call that returned a new operation for
\* each document: the document of that operation and the key
Kept(first, operation, r) ==
    IF r.threw \/ ~r.created \/ operation.query \in DOMAIN first THEN first
    ELSE [q \in DOMAIN first \cup {operation.query} |->
             IF q = operation.query THEN [query |-> r.operation.query, key |-> r.key]
             ELSE first[q]]

\* const { operation, key } = extractKey(origOperation)
ExtractKey(operation) ==
    /\ call.number < NumCalls
    /\ \E r \in {extractKey(Now, operation)} :
           /\ heap' = r.s.heap
           /\ documentCache' = r.s.documentCache
           /\ call' = [made |-> TRUE, number |-> call.number + 1,
                       operation |-> operation, threw |-> r.threw,
                       message |-> r.message, returned |-> r.operation,
                       created |-> r.created, key |-> r.key,
                       first |-> Kept(call.first, operation, r),
                       validated |-> r.s.validated,
                       checked |-> call.checked
                                       \cup { r.s.validated[i] : i \in 1..Len(r.s.validated) }]
    /\ UNCHANGED <<version, revision, opQueues, down, ops, effects, emitted, received>>

KeyInit ==
    /\ version = "current"
    /\ revision = "current"
    /\ Constructed

KeyNext == \E operation \in KeyOperations : ExtractKey(operation)

KeySpec == KeyInit /\ [][KeyNext]_vars

\* the same calls on the legacy revision of extractKey
LegacyKeyInit ==
    /\ version = "current"
    /\ revision = "legacy"
    /\ Constructed

LegacyKeySpec == LegacyKeyInit /\ [][KeyNext]_vars

----------------------------------------------------------------------------
(* Vocabulary of the properties of extractKey *)

\* the document the last call was given, as it was parsed
CallDocument == Documents[call.operation.query]

\* the last call was given an operation without a truthy context key
NoContextKey == call.made /\ ~Truthy(call.operation.serializationKey)

\* the directives named serialize of a document's operation definition
SerializeDirectives(doc) ==
    LET IsSerialize(d) == d.name = "serialize"
    IN  SelectSeq(doc.directives, IsSerialize)

\* the other directives of a document's operation definition, in order
OtherDirectives(doc) ==
    LET IsOther(d) == d.name # "serialize"
    IN  SelectSeq(doc.directives, IsOther)

HasSerialize(doc) == SerializeDirectives(doc) # <<>>

\* the arguments named key of the (first) serialize directive
KeyArguments(doc) ==
    LET IsKey(a) == a.name = "key"
    IN  SelectSeq(SerializeDirectives(doc)[1].arguments, IsKey)

\* the serialize directive has a key argument whose value is a list literal
HasKeyList(doc) ==
    /\ HasSerialize(doc)
    /\ KeyArguments(doc) # <<>>
    /\ KeyArguments(doc)[1].value.kind = "ListValue"

\* the elements of the key list
KeyList(doc) == KeyArguments(doc)[1].value.values

\* the names of the variables the key list refers to
KeyListVariables(doc) ==
    { KeyList(doc)[i].value : i \in { j \in 1..Len(KeyList(doc)) :
                                         KeyList(doc)[j].kind = "Variable" } }

\* the bindings have an entry for the name
Bound(variables, name) == variables.defined /\ name \in DOMAIN variables.own

----------------------------------------------------------------------------
(* C12 *)

\* C12: a call of extractKey on an operation whose context carries a truthy
\* serializationKey does not throw, returns that value as the key and the
\* operation it was given (no new object), and leaves the document objects
\* and the cache of transformed documents as they were, whatever directive
\* the document carries.
C12_ContextKeyWins ==
    [][(call' # call /\ Truthy(call'.operation.serializationKey))
          => /\ ~call'.threw
             /\ call'.key = call'.operation.serializationKey
             /\ call'.returned = call'.operation
             /\ ~call'.created
             /\ heap' = heap
             /\ documentCache' = documentCache]_vars

\* the operation has a context key and a @serialize directive without key
\* argument; other documents have been transformed before
C12_Witness ==
    /\ call.made /\ call.operation.serializationKey = "foo"
    /\ call.operation.query = Ref(NoArgumentDoc)
    /\ call.key = "foo"
    /\ DOMAIN documentCache # {}

----------------------------------------------------------------------------
(* C13 *)

----------------------------------------------------------------------------
(* C14 *)

\* JSON text of a bound value
JsonOfValue(val) ==
    CASE val.t = "string" -> "\"" \o val.s \o "\""
      [] val.t = "number" -> ToString(val.n)
      [] val.t = "boolean" -> IF val.b THEN "true" ELSE "false"

\* JSON text of an element of the key list: a number is written as the
\* literal's own decimal text, a string or enum name in quotes
JsonOfElement(element, variables) ==
    CASE element.kind = "Variable" -> JsonOfValue(variables.own[element.value])
      [] element.kind = "StringValue" -> "\"" \o element.value \o "\""
      [] element.kind = "EnumValue" -> "\"" \o element.value \o "\""
      [] element.kind = "IntValue" -> Text(element.digits)
      [] element.kind = "BooleanValue" -> IF element.bool THEN "true" ELSE "false"

\* the JSON array of the elements of the key list, in argument order
JsonArray(list, variables) ==
    "[" \o Join([i \in 1..Len(list) |-> JsonOfElement(list[i], variables)]) \o "]"

\* the key list holds variables and string, integer, boolean and enum
\* literals only, and every variable is bound
PlainKeyList(doc, variables) ==
    /\ HasKeyList(doc)
    /\ \A i \in 1..Len(KeyList(doc)) :
          KeyList(doc)[i].kind \in
              {"Variable", "StringValue", "IntValue", "BooleanValue", "EnumValue"}
    /\ \A name \in KeyListVariables(doc) : Bound(variables, name)

\* C14: for a key list of variables and string, integer, boolean and enum
\* literals with every variable bound, the key extractKey returns is the JSON
\* array of the elements in argument order, each variable replaced by its
\* binding: [$v, true, FOO, 5, -12, "abc"] with v = "bar" gives
\* ["bar",true,"FOO",5,-12,"abc"], and the empty list gives [].
C14_KeyIsJsonArray ==
    (NoContextKey /\ PlainKeyList(CallDocument, call.operation.variables))
        => /\ ~call.threw
           /\ call.key = JsonArray(KeyList(CallDocument), call.operation.variables)
           /\ (call.operation.query = Ref(EmptyKeyDoc)) => call.key = "[]"
           /\ (call.operation.query = Ref(AllTypesDoc)
                  /\ call.operation.variables = AllBound)
                 => call.key = "[\"bar\",true,\"FOO\",5,-12,\"abc\"]"
           /\ (call.operation.query = Ref(VariableKeyDoc)
                  /\ call.operation.variables = Bind("v", JsString("x")))
                 => call.key = "[\"x\"]"

\* the key of a list with a variable and a literal of each kind
C14_Witness ==
    /\ NoContextKey
    /\ call.operation.query = Ref(AllTypesDoc)
    /\ call.operation.variables = Bind("v", JsBoolean(TRUE))
    /\ call.key = "[true,true,\"FOO\",5,-12,\"abc\"]"

----------------------------------------------------------------------------
(* C15 *)

\* the message of the error for a variable without value
NoValueSupplied(name) ==
    "No value supplied for variable $" \o name \o " used in @serialize key"

\* C15: when the key list refers to a variable for which the bindings of the
\* operation have no entry, or the operation has no bindings, extractKey
\* throws an error that names such a variable and returns no key and no
\* operation.
C15_MissingVariableRaises ==
    (NoContextKey /\ HasKeyList(CallDocument)
        /\ \E name \in KeyListVariables(CallDocument) :
              ~Bound(call.operation.variables, name))
        => /\ call.threw
           /\ call.key = Undefined
           /\ \E name \in KeyListVariables(CallDocument) :
                 /\ ~Bound(call.operation.variables, name)
                 /\ call.message = NoValueSupplied(name)

----------------------------------------------------------------------------
(* C16 *)

RequiresKeyArgument == "The @serialize directive requires a 'key' argument"

MustBeList == "The @serialize directive's 'key' argument must be of type List, got Argument"

----------------------------------------------------------------------------
(* C17 *)

\* C17: for an operation without context key whose @serialize key argument
\* is a string literal with {{name}} placeholders, the key is that string
\* with each placeholder replaced by the value bound to the variable of that
\* name: "thing:{{id}}:{{oid}}" with id = 123 and oid = "foo" gives
\* "thing:123:foo".
C17_PlaceholdersInterpolated ==
    (NoContextKey /\ call.operation.query = Ref(StringKeyDoc)
        /\ call.operation.variables = AllBound)
        => /\ ~call.threw
           /\ call.key = "thing:123:foo"

----------------------------------------------------------------------------
(* C18 *)

\* the document of the operation the last call returned
ReturnedDocument == Content(heap, call.returned.query)

\* C18: the document of the operation extractKey returns for an operation
\* with a @serialize directive has the directives of the operation
\* definition other than serialize, in their order, and the same selection
\* set and fragments: @serialize(key: [$v]) @fizz leaves exactly @fizz.
C18_OtherDirectivesKept ==
    (NoContextKey /\ ~call.threw /\ HasSerialize(CallDocument))
        => /\ OtherDirectives(ReturnedDocument) = OtherDirectives(CallDocument)
           /\ ReturnedDocument.selectionSet = CallDocument.selectionSet
           /\ ReturnedDocument.fragments = CallDocument.fragments
           /\ (call.operation.query = Ref(VariableKeyDoc))
                 => ReturnedDocument.directives = <<Directive("fizz", <<>>)>>

\* the directive stood between two others, which are kept in their order
C18_Witness ==
    /\ NoContextKey /\ ~call.threw
    /\ call.operation.query = Ref(AllTypesDoc)
    /\ ReturnedDocument.directives = <<Directive("fizz", <<>>), Directive("buzz", <<>>)>>
    /\ ReturnedDocument.selectionSet = Hello

----------------------------------------------------------------------------
(* C19 *)

\* the names of the variables in the arguments of a list of directives
VariablesOfDirectives(directives) ==
    LET names == getVariablesFromArguments(getAllArgumentsFromDirectives(directives))
    IN  { names[i] : i \in 1..Len(names) }

\* the names of the variables used in a selection set: in the arguments and
\* directives of its fields, fragment spreads and inline fragments, at any
\* depth
RECURSIVE VariablesOfSelectionSet(_)
VariablesOfSelectionSet(selectionSet) ==
    UNION { LET selection == selectionSet[i]
                names == getVariablesFromArguments(selection.arguments)
            IN  { names[j] : j \in 1..Len(names) }
                    \cup VariablesOfDirectives(selection.directives)
                    \cup VariablesOfSelectionSet(selection.selectionSet)
            : i \in 1..Len(selectionSet) }

\* the names of the variables a document uses outside the serialize directive
UsedElsewhere(doc) ==
    VariablesOfDirectives(OtherDirectives(doc))
        \cup VariablesOfSelectionSet(doc.selectionSet)
        \cup UNION { VariablesOfDirectives(doc.fragments[i].directives)
                        \cup VariablesOfSelectionSet(doc.fragments[i].selectionSet)
                     : i \in 1..Len(doc.fragments) }

Defined(doc) == { doc.variableDefinitions[i] : i \in 1..Len(doc.variableDefinitions) }

\* C19: a variable of the key list that the document also uses elsewhere (in
\* a field argument at any depth, in another directive's argument, inside a
\* list or object value, in a named fragment, in the selection set of an
\* inline fragment) keeps its variable definition in the document of the
\* returned operation.
C19_UsedVariablesKeepDefinition ==
    (NoContextKey /\ ~call.threw /\ HasKeyList(CallDocument))
        => \A name \in KeyListVariables(CallDocument) \cap Defined(CallDocument) :
              name \in UsedElsewhere(CallDocument) => name \in Defined(ReturnedDocument)

----------------------------------------------------------------------------
(* C20 *)

\* C20: after any sequence of calls of extractKey, every document object a
\* caller parsed has the content it was parsed with: its @serialize
\* directive and its variable definitions are still there.
C20_OriginalDocumentUnchanged ==
    \A r \in DocRefs : Content(heap, r) = Documents[r]

----------------------------------------------------------------------------
(* C21 *)

\* C21: of the calls of extractKey on operations that share one document
\* object with a @serialize key list, every one that returns gives an
\* operation whose document is the same object as the one the first such
\* call returned, and its key is the encoding of the key list under its own
\* bindings, not the key of the first call.
C21_SameDocumentOwnKey ==
    (NoContextKey /\ HasKeyList(CallDocument) /\ ~call.threw)
        => /\ call.operation.query \in DOMAIN call.first
           /\ call.returned.query = call.first[call.operation.query].query
           /\ PlainKeyList(CallDocument, call.operation.variables)
                 => call.key = JsonArray(KeyList(CallDocument), call.operation.variables)

\* the document with the key list [$v] was resolved with one binding and then
\* with another: the keys differ and the document returned is the same object
C21_Witness ==
    /\ NoContextKey /\ ~call.threw
    /\ call.operation.query = Ref(VariableKeyDoc)
    /\ call.operation.variables = Bind("v", JsBoolean(TRUE))
    /\ call.key = "[true]"
    /\ call.first[Ref(VariableKeyDoc)].key = "[\"x\"]"
    /\ call.returned.query = call.first[Ref(VariableKeyDoc)].query
    /\ call.returned.query # call.operation.query

----------------------------------------------------------------------------
(* C22 *)

\* the step is the call of request() for o
RequestStep(o) == ops[o].status = "new" /\ ops'[o].status # "new"

\* key extraction fails for the operation: it has no context key and its
\* @serialize directive has no key list, or the key list refers to a variable
\* the operation has no value for
ExtractionFails(operation) ==
    /\ ~Truthy(operation.serializationKey)
    /\ HasSerialize(Documents[operation.query])
    /\ \/ ~HasKeyList(Documents[operation.query])
       \/ \E name \in KeyListVariables(Documents[operation.query]) :
             ~In(name, operation.variables) \/ ~operation.variables.defined

\* C22: when the link resolves keys with extractKey and extraction fails for
\* an operation, the call of request() throws: no result stream is returned
\* and no observer receives anything, no entry is enqueued, the key-to-queue
\* map and the downstream executions are as before, and the downstream
\* executor is not invoked; nothing happens to that operation afterwards.
C22_ExtractionFailureThrows ==
    [][\A o \in OpIds :
          /\ (version = "current" /\ RequestStep(o) /\ ExtractionFails(ops'[o].operation))
                => /\ ops'[o].status = "threw"
                   /\ ops'[o].stream = "none"
                   /\ opQueues' = opQueues
                   /\ down' = down
                   /\ received' = <<>>
                   /\ effects' = <<Effect("throw", o, Undefined)>>
          /\ ops[o].status = "threw"
                => /\ ops'[o] = ops[o]
                   /\ down'[o] = [state |-> "none", starts |-> 0]]_vars

\* request() has just thrown for an operation whose key variable has no
\* value, while an operation is in flight and another waits behind it
C22_Witness ==
    \E o, a, b \in OpIds :
        /\ ops[o].status = "threw"
        /\ ops[o].operation = Operation(Undefined, Ref(VariableKeyDoc), NoVariables)
        /\ effects = <<Effect("throw", o, Undefined)>>
        /\ SameKey(a, b) /\ InFlight(a) /\ Waiting(b)

----------------------------------------------------------------------------
(* C23 *)

\* the downstream executions the last handler started
Forwards == { i \in 1..Len(effects) : effects[i].e = "forward" }

\* C23: when the entry that was in flight leaves the queue of its key (its
\* execution completed or failed, or it was cancelled) and entries remain,
\* the handler starts exactly one downstream execution, that of the oldest
\* remaining entry, which is now the head; the entries behind it are not
\* started. So of three operations of one key subscribed in the order a, b,
\* c, c is started only when b is no longer in flight and was started or
\* cancelled before.
C23_OneStartOldestFirst ==
    /\ \A o \in OpIds :
          (Keyed(o) /\ Has("remove", o) /\ down[o].starts > 0
              /\ HasQueue(opQueues, ops[o].key))
          => LET q == opQueues[ops[o].key]
             IN  /\ Cardinality(Forwards) = 1
                 /\ Then("remove", o, "forward", q[1].operation)
                 /\ down[q[1].operation] = [state |-> "running", starts |-> 1]
                 /\ \A i \in 2..Len(q) :
                       /\ ops[q[1].operation].ticket < ops[q[i].operation].ticket
                       /\ down[q[i].operation].state = "none"
    /\ \A a, b, c \in OpIds :
          (SameKey(a, b) /\ SameKey(b, c)
              /\ 0 < ops[a].ticket /\ ops[a].ticket < ops[b].ticket
              /\ ops[b].ticket < ops[c].ticket /\ down[c].starts > 0)
          => /\ ~InFlight(a) /\ ~InFlight(b)
             /\ ~InQueue(a) /\ ~InQueue(b)

\* the first of three operations of a key has just completed: the second was
\* started by that event and the third still waits
C23_Witness ==
    \E a, b, c \in OpIds :
        /\ SameKey(a, b) /\ SameKey(b, c)
        /\ ops[a].ticket < ops[b].ticket /\ ops[b].ticket < ops[c].ticket
        /\ version = "current"
        /\ effects = <<Effect("complete", a, ops[a].key), Effect("remove", a, ops[a].key),
                       Effect("forward", b, ops[a].key)>>
        /\ opQueues[ops[a].key] = <<[operation |-> b, observer |-> b, subscription |-> 1],
                                    [operation |-> c, observer |-> c, subscription |-> NoSub]>>

----------------------------------------------------------------------------
(* C24 *)

\* the keyed operations that have been enqueued
Enqueued == { o \in OpIds : Keyed(o) /\ ops[o].ticket > 0 }

\* the operation has completed, failed or been cancelled
Terminated(o) == ops[o].status = "closed"

\* C24: no entry of an operation that has completed, failed or been
\* cancelled is in a queue; so whenever every keyed operation enqueued so
\* far has completed, failed or been cancelled, the key-to-queue map has no
\* key.
C24_NothingLeftBehind ==
    /\ \A o \in Enqueued : Terminated(o) => ~InQueue(o)
    /\ (\A o \in Enqueued : Terminated(o)) => DOMAIN opQueues = {}

\* three operations of two keys have all been enqueued and have all ended,
\* the last one just now: the map is empty
C24_Witness ==
    /\ Enqueued = OpIds
    /\ \A o \in OpIds : Terminated(o)
    /\ \E a, b \in OpIds : ops[a].key # ops[b].key
    /\ \E o \in OpIds : Has("remove", o) /\ Deleted(ops[o].key)
    /\ DOMAIN opQueues = {}

----------------------------------------------------------------------------
(* C25 *)

\* o has been cancelled while it waited: its caller has unsubscribed and the
\* downstream executor was never invoked for it
CancelledWaiting(o) == Keyed(o) /\ ops[o].status = "closed" /\ down[o].state = "none"

\* C25: the cancellation of an operation that waits behind the head of its
\* queue does not hand it to the downstream executor, and no later step
\* does: its entry is gone and it stays not started.
C25_CancelledWaitingNeverStarted ==
    [][\A o \in OpIds :
          ((CancelStep(o) /\ Waiting(o)) \/ CancelledWaiting(o))
          => /\ down'[o] = [state |-> "none", starts |-> 0]
             /\ \A i \in 1..Len(effects') : ~(effects'[i].e = "forward" /\ effects'[i].op = o)
             /\ \A k \in DOMAIN opQueues' : \A i \in 1..Len(opQueues'[k]) :
                   opQueues'[k][i].operation # o]_vars

\* the middle one of three operations of a key was cancelled while it
\* waited; the first one has completed and the third one was started then
C25_Witness ==
    \E a, o, c \in OpIds :
        /\ SameKey(a, o) /\ SameKey(o, c)
        /\ ops[a].ticket < ops[o].ticket /\ ops[o].ticket < ops[c].ticket
        /\ CancelledWaiting(o)
        /\ Then("complete", a, "remove", a)
        /\ Then("remove", a, "forward", c)
        /\ InFlight(c)

----------------------------------------------------------------------------
(* C26 *)

\* C26: the cancellation of an entry, in flight or waiting, delivers no next,
\* error or complete to the observer of that entry, and no later step
\* delivers one to it.
C26_CancelDeliversNothing ==
    [][\A o \in OpIds :
          (Keyed(o) /\ (CancelStep(o) \/ ops[o].status = "closed"))
          => /\ \A i \in 1..Len(received') : received'[i].op # o
             /\ \A i \in 1..Len(effects') :
                   effects'[i].op = o => effects'[i].e \notin {"next", "error", "complete"}]_vars

\* the only entry of a key was cancelled while in flight: its execution was
\* unsubscribed, the key was deleted and nobody received anything, while an
\* operation of another key is in flight
C26_Witness ==
    \E o, b \in OpIds :
        /\ Keyed(o) /\ Keyed(b) /\ ops[o].key # ops[b].key
        /\ Then("cancel", o, "unsubscribe", o) /\ Deleted(ops[o].key)
        /\ received = <<>>
        /\ InFlight(b)

----------------------------------------------------------------------------
(* C27 *)

\* C27: in every reachable state, in the queue of each key only the entry at
\* index 0 (here 1) can have a downstream subscription; every entry behind
\* it has none.
C27_OnlyHeadSubscribed ==
    \A k \in DOMAIN opQueues : \A i \in 2..Len(opQueues[k]) :
        opQueues[k][i].subscription = NoSub

\* a queue of three entries: the head has its subscription, the two behind
\* it have none
C27_Witness ==
    \E k \in DOMAIN opQueues :
        /\ Len(opQueues[k]) = 3
        /\ opQueues[k][1].subscription # NoSub
        /\ opQueues[k][2].subscription = NoSub
        /\ opQueues[k][3].subscription = NoSub

----------------------------------------------------------------------------
(* C28 *)

\* C28: after every handler (enqueue, downstream terminal event, cancel),
\* every key of the key-to-queue map has a head entry whose downstream
\* execution has been started and is running, under the subscription the
\* entry holds; an entry enqueued on a key that had no queue is the head and
\* was started by its own enqueue.
C28_HeadAlwaysStarted ==
    /\ \A k \in DOMAIN opQueues :
          /\ Len(opQueues[k]) > 0
          /\ opQueues[k][1].subscription # NoSub
          /\ down[opQueues[k][1].operation] =
                 [state |-> "running", starts |-> opQueues[k][1].subscription]
    /\ \A o \in OpIds :
          (Has("enqueue", o) /\ opQueues[ops[o].key][1].operation = o)
              => Then("enqueue", o, "forward", o)

\* both keys have a queue whose head is running; the head of one of them
\* has just been enqueued and started, behind the other head an entry waits
C28_Witness ==
    \E a, b, c \in OpIds :
        /\ Cardinality(DOMAIN opQueues) = 2
        /\ InQueue(a) /\ InQueue(b) /\ ops[a].key # ops[b].key
        /\ opQueues[ops[a].key] = <<[operation |-> a, observer |-> a, subscription |-> 1],
                                    [operation |-> c, observer |-> c, subscription |-> NoSub]>>
        /\ opQueues[ops[b].key] = <<[operation |-> b, observer |-> b, subscription |-> 1]>>
        /\ effects = <<Effect("enqueue", b, ops[b].key), Effect("forward", b, ops[b].key)>>

----------------------------------------------------------------------------
(* C29 *)

\* the step is an event (next, error, complete) of the downstream execution
\* of o
DownstreamStep(o) == emitted'.op = o /\ emitted'.type # "none" /\ down[o].state = "running"

\* C29: an enqueue, a downstream next, error or complete, or a cancel of an
\* operation of key k changes nothing of another key: the other keys of the
\* map stay, with the same entries in the same order and with the same
\* subscriptions, no operation of another key and no downstream execution
\* of another key changes, and everything the handler does is done for k.
C29_OtherKeysUntouched ==
    [][\A o \in OpIds :
          (Keyed(o) /\ (SubscribeStep(o) \/ DownstreamStep(o) \/ CancelStep(o)))
          => /\ \A k \in (DOMAIN opQueues \cup DOMAIN opQueues') \ {ops[o].key} :
                   /\ k \in DOMAIN opQueues /\ k \in DOMAIN opQueues'
                   /\ opQueues'[k] = opQueues[k]
             /\ \A p \in OpIds \ {o} :
                   ~(Keyed(p) /\ ops[p].key = ops[o].key)
                       => down'[p] = down[p] /\ ops'[p] = ops[p]
             /\ \A i \in 1..Len(effects') : effects'[i].key = ops[o].key]_vars

\* the only entry of a key has just failed and its key was deleted, while the
\* queue of another key has its head in flight and an entry waiting
C29_Witness ==
    \E o, a, b \in OpIds :
        /\ Keyed(o) /\ SameKey(a, b) /\ ops[o].key # ops[a].key
        /\ Then("error", o, "remove", o) /\ Deleted(ops[o].key)
        /\ InQueue(a)
        /\ opQueues[ops[a].key] = <<[operation |-> a, observer |-> a, subscription |-> 1],
                                    [operation |-> b, observer |-> b, subscription |-> NoSub]>>

----------------------------------------------------------------------------
(* C30 *)

\* the kinds of value a key list may have as elements
AllowedKinds ==
    {"Variable", "IntValue", "FloatValue", "StringValue", "BooleanValue", "EnumValue"}

\* the elements of the key list that are of no allowed kind
BadElements(doc) ==
    { i \in 1..Len(KeyList(doc)) : KeyList(doc)[i].kind \notin AllowedKinds }

NotAllowed(kind) == "Argument of type " \o kind \o " is not allowed in @serialize directive"

\* C30: when an element of the key list is neither a variable nor an integer,
\* float, string, boolean or enum literal (an object literal, a nested list,
\* null), extractKey throws and gives no key and no new operation; the error
\* names the kind of such an element, unless a variable without value comes
\* before it.
C30_OtherElementKindsRejected ==
    (NoContextKey /\ HasKeyList(CallDocument) /\ BadElements(CallDocument) # {})
        => /\ call.threw
           /\ call.key = Undefined
           /\ ~call.created
           /\ \/ \E i \in BadElements(CallDocument) :
                     call.message = NotAllowed(KeyList(CallDocument)[i].kind)
              \/ \E name \in KeyListVariables(CallDocument) :
                     call.message = NoValueSupplied(name)

\* the call on the document whose key list has a nested list after a string
\* threw, after calls on the documents with an object and with null
C30_Witness ==
    /\ NoContextKey
    /\ call.operation.query = Ref(ListElementDoc)
    /\ call.threw /\ call.message = NotAllowed("ListValue")
    /\ {Ref(ObjectElementDoc), Ref(NullElementDoc), Ref(ListElementDoc)}
           \subseteq DOMAIN documentCache

----------------------------------------------------------------------------
(* C31 *)

\* the names of the variables in the arguments of the serialize directive
\* that is removed, the first one
RemovedDirectiveVariables(doc) ==
    VariablesOfDirectives(<<SerializeDirectives(doc)[1]>>)

\* the names of the variables a document uses outside that directive
UsedOutsideRemoved(doc) ==
    UsedElsewhere(doc) \cup VariablesOfDirectives(Tail(SerializeDirectives(doc)))

\* C31: the document of the returned operation has lost the definitions of
\* the variables that only the removed @serialize directive referred to, and
\* has every other variable definition of the original document.
C31_OnlyUnusedDefinitionsPruned ==
    (NoContextKey /\ ~call.threw /\ HasKeyList(CallDocument))
        => Defined(ReturnedDocument)
              = Defined(CallDocument)
                    \ (RemovedDirectiveVariables(CallDocument)
                           \ UsedOutsideRemoved(CallDocument))

----------------------------------------------------------------------------
(* C32 *)

\* C32: when extractKey gives an operation a key from its @serialize
\* directive, the operation definition of the document of the returned
\* operation has no directive named serialize, also when the original
\* definition has the directive more than once.
C32_NoSerializeLeft ==
    (NoContextKey /\ ~call.threw /\ call.key # Undefined /\ HasSerialize(CallDocument))
        => SerializeDirectives(ReturnedDocument) = <<>>

----------------------------------------------------------------------------
(* C33 *)

\* C33: over any sequence of calls of extractKey, a document object, with or
\* without a @serialize directive, is validated and searched for its
\* operation definition and directive at most once: a call never validates
\* a document that an earlier call has validated.
C33_ValidatedAtMostOnce ==
    [][\A i \in 1..Len(call'.validated) : call'.validated[i] \notin call.checked]_vars

----------------------------------------------------------------------------
(* C34 *)

\* C34: the operation extractKey returns for an operation with a @serialize
\* key list is a new object, not the one it was given; its document is the
\* transformed copy kept for the original document, and its context,
\* operation name and variable bindings are those of the operation given,
\* the bindings of variables whose definitions were removed included.
C34_NewOperationSameBindings ==
    (NoContextKey /\ ~call.threw /\ HasKeyList(CallDocument))
        => /\ call.created
           /\ call.returned.query # call.operation.query
           /\ call.returned.query = documentCache[call.operation.query].doc
           /\ Len(ReturnedDocument.directives) = Len(CallDocument.directives) - 1
           /\ call.returned.serializationKey = call.operation.serializationKey
           /\ call.returned.operationName = call.operation.operationName
           /\ call.returned.variables = call.operation.variables

\* the definition of $key was removed from the document and the returned
\* operation still binds key
C34_Witness ==
    /\ NoContextKey /\ ~call.threw
    /\ call.operation.query = Ref(UsedVariableDoc)
    /\ call.operation.variables = AllBound
    /\ "key" \notin Defined(ReturnedDocument)
    /\ "key" \in DOMAIN call.returned.variables.own
    /\ call.created

----------------------------------------------------------------------------
(* Runs in which a downstream stream may emit while it is being subscribed *)
(* and the callers' next callbacks subscribe and unsubscribe other streams *)

Reactions ==
    {Nothing} \cup { Reaction(do, p) : do \in {"cancel", "subscribe"}, p \in OpIds }

\* the operations of these runs: one key
SyncOperations == { Operation("A", Ref(PlainDoc), NoVariables) }

\* a caller calls link.request(operation, forward) with a forward whose
\* stream emits a value when it is subscribed (or not), and will subscribe
\* with an observer whose next callback has the given reaction
RequestSync(o, operation, emits, reaction) ==
    /\ ops[o].status = "new"
    /\ reaction.op # o
    /\ ~emits => reaction = Nothing
    /\ Becomes(request([Now EXCEPT !.ops[o].emits = emits, !.ops[o].onNext = reaction],
                       o, operation))

SyncNext ==
    \/ \E o \in OpIds, operation \in SyncOperations, emits \in BOOLEAN,
          reaction \in Reactions : RequestSync(o, operation, emits, reaction)
    \/ \E o \in OpIds : Subscribe(o)
    \/ \E o \in OpIds, value \in Values : DownstreamNext(o, value)
    \/ \E o \in OpIds, value \in Errors : DownstreamError(o, value)
    \/ \E o \in OpIds : DownstreamComplete(o)
    \/ \E o \in OpIds : Unsubscribe(o)

SyncSpec == Init /\ [][SyncNext]_vars

----------------------------------------------------------------------------
(* C35 *)

----------------------------------------------------------------------------
(* Runs in which the teardown of a result stream is called again after the *)
(* entry has left its queue                                                *)

\* cancelOp(key, entry) is called for the entry of o, which completed,
\* errored or was cancelled before
CancelAgain(o) ==
    /\ ops[o].stream = "queued"
    /\ ops[o].status = "closed"
    /\ Becomes(teardown(Did(Now, "again", o, ops[o].key), ops[o].key, o))

CancelNext ==
    \/ Next
    \/ \E o \in OpIds : CancelAgain(o)

CancelSpec == Init /\ [][CancelNext]_vars

----------------------------------------------------------------------------
(* C36 *)

\* the step is a call of cancelOp for the entry of o after it has left the
\* queue
CancelAgainStep(o) ==
    /\ ~InQueue(o)
    /\ effects' # <<>>
    /\ effects'[1] = Effect("again", o, ops[o].key)

\* C36: cancelOp for an entry that is no longer in the queue of its key
\* changes nothing: no queue changes, the queue other operations have
\* re-created for the key included, no downstream execution is unsubscribed
\* or started, and no observer is notified.
C36_CancelGoneIsNoOp ==
    [][\A o \in OpIds :
          CancelAgainStep(o)
              => /\ opQueues' = opQueues
                 /\ down' = down
                 /\ ops' = ops
                 /\ received' = <<>>
                 /\ Len(effects') = 1]_vars

\* the entry of o has gone, the queue of its key holds two other operations,
\* one in flight and one waiting, and cancelOp was called for o
C36_Witness ==
    \E o, a, b \in OpIds :
        /\ effects = <<Effect("again", o, ops[o].key)>>
        /\ ~InQueue(o)
        /\ a # o /\ b # o
        /\ InQueue(a) /\ InQueue(b)
        /\ ops[a].key = ops[o].key /\ ops[b].key = ops[o].key
        /\ opQueues[ops[o].key] = <<[Entry(a) EXCEPT !.subscription = 1], Entry(b)>>
        /\ down[a].state = "running"

----------------------------------------------------------------------------
(* C37 *)

\* the operations that have an entry in the queue of key k after the step,
\* in the order of the queue
QueuedAfter(k) == [i \in 1..Len(opQueues'[k]) |-> opQueues'[k][i].operation]

\* C37: request() for a keyed operation returns a stream and touches no
\* queue and no downstream execution; the entry is appended to the queue of
\* its key in the step that subscribes the stream. So an operation whose
\* stream has not been subscribed is in no queue, the entries of a queue are
\* in the order of their subscription, and the head of every queue is in
\* flight whatever streams of the key have been returned and not subscribed.
C37_EnqueuedWhenSubscribed ==
    [][/\ \A o \in OpIds :
            (RequestStep(o) /\ ops'[o].stream = "queued")
                => /\ opQueues' = opQueues
                   /\ down' = down
                   /\ effects' = <<Effect("observable", o, ops'[o].key)>>
       /\ \A o \in OpIds :
            (SubscribeStep(o) /\ Keyed(o))
                => /\ ~InQueue(o)
                   /\ ops[o].key \in DOMAIN opQueues'
                   /\ QueuedAfter(ops[o].key)[Len(opQueues'[ops[o].key])] = o
       /\ \A k \in DOMAIN opQueues' :
            /\ \A i \in 1..Len(opQueues'[k]) :
                  ops'[QueuedAfter(k)[i]].status \in {"subscribed"}
            /\ \A i, j \in 1..Len(opQueues'[k]) :
                  i < j => ops'[QueuedAfter(k)[i]].ticket < ops'[QueuedAfter(k)[j]].ticket
            /\ down'[QueuedAfter(k)[1]].state = "running"]_vars

\* the stream request() returned for operation 3 has not been subscribed;
\* two operations of the same key, subscribed later than that request could
\* have been made, have run: the first has ended and the second is in flight
C37_Witness ==
    \E a, b, c \in OpIds :
        /\ SameKey(a, b) /\ SameKey(b, c)
        /\ ops[c].status = "returned" /\ ~InQueue(c)
        /\ ops[a].ticket = 1 /\ ops[b].ticket = 2
        /\ Ended(a) /\ ops[a].status = "closed"
        /\ InFlight(b)
        /\ opQueues[ops[c].key] = <<[Entry(b) EXCEPT !.subscription = 1]>>

----------------------------------------------------------------------------
(* Runs of operations whose keys come from key lists that differ in the   *)
(* length, the values or the types of their elements                       *)

\* the bindings of $v in mutation ($v: String) @serialize(key: [$v]) { hello }
ListValues ==
    { JsString("1"), JsNumber(1), JsString("true"), JsBoolean(TRUE),
      JsString("a,b"), JsString("a\",\"b") }

\* the operations of these runs; the link does not compare a binding with
\* the type the document declares for the variable
ListOperations ==
    { Operation(Undefined, Ref(VariableKeyDoc), Bind("v", val)) : val \in ListValues }
        \cup { Operation(Undefined, Ref(UsedVariableDoc),
                         Variables([x \in {"key", "foo"} |->
                                       IF x = "key" THEN JsString("a") ELSE JsString("b")])),
               Operation(Undefined, Ref(EmptyKeyDoc), NoVariables),
               Operation("[\"1\"]", Ref(PlainDoc), NoVariables) }

ListNext ==
    \/ \E o \in OpIds, operation \in ListOperations : Request(o, operation)
    \/ \E o \in OpIds : Subscribe(o)
    \/ \E o \in OpIds : DownstreamComplete(o)

ListSpec == Init /\ [][ListNext]_vars

----------------------------------------------------------------------------
(* C38 *)

\* the key of o was resolved from a key list of variables and string
\* literals
FromList(o) ==
    /\ Keyed(o)
    /\ ~Truthy(ops[o].operation.serializationKey)
    /\ PlainKeyList(Documents[ops[o].operation.query], ops[o].operation.variables)
    /\ \A i \in 1..Len(KeyList(Documents[ops[o].operation.query])) :
          KeyList(Documents[ops[o].operation.query])[i].kind \in {"Variable", "StringValue"}

\* the resolved elements of the key list of o: each variable replaced by
\* its binding
Elements(o) ==
    [i \in 1..Len(KeyList(Documents[ops[o].operation.query])) |->
        IF KeyList(Documents[ops[o].operation.query])[i].kind = "Variable"
        THEN ops[o].operation.variables.own[KeyList(Documents[ops[o].operation.query])[i].value]
        ELSE JsString(KeyList(Documents[ops[o].operation.query])[i].value)]

\* C38: two enqueued operations are in the same queue exactly when their
\* resolved key strings are equal, and two key lists of strings, integers
\* and booleans that differ in length, in a value or in the type of a value
\* (the string "1" and the number 1) resolve to different key strings.
C38_SameQueueIffEqualKey ==
    /\ \A a, b \in OpIds :
          (InQueue(a) /\ InQueue(b))
              => ((\E k \in DOMAIN opQueues : InQueueOf(a, k) /\ InQueueOf(b, k))
                      <=> ops[a].key = ops[b].key)
    /\ \A a, b \in OpIds :
          (FromList(a) /\ FromList(b) /\ Elements(a) # Elements(b))
              => ops[a].key # ops[b].key

\* [$v] with v = "1" and with v = 1 are in flight at once in two queues,
\* and a second operation with v = "1" waits behind the first
C38_Witness ==
    \E a, b, c \in OpIds :
        /\ FromList(a) /\ FromList(b) /\ FromList(c)
        /\ Elements(a) = <<JsString("1")>> /\ Elements(c) = <<JsString("1")>>
        /\ Elements(b) = <<JsNumber(1)>>
        /\ ops[a].key = "[\"1\"]" /\ ops[b].key = "[1]"
        /\ InFlight(a) /\ InFlight(b) /\ Waiting(c)
        /\ InQueueOf(c, ops[a].key) /\ ~InQueueOf(b, ops[a].key)

----------------------------------------------------------------------------
(* C39 *)

\* the operation definitions of a document, in document order
Definitions(doc) ==
    <<OperationDefinition(doc.name, doc.variableDefinitions, doc.directives,
                          doc.selectionSet)>> \o doc.more

\* the definition the operation names, the first one when it names none of
\* the document
Target(doc, n) ==
    IF \E i \in 1..Len(Definitions(doc)) : Definitions(doc)[i].name = n
    THEN Definitions(doc)[CHOOSE i \in 1..Len(Definitions(doc)) : Definitions(doc)[i].name = n]
    ELSE Definitions(doc)[1]

\* the definition the last call had to look at
CallTarget == Target(CallDocument, call.operation.operationName)

\* C39: extractKey called (without a context key) with a document of
\* several named operation definitions does not throw; it takes the key from
\* the @serialize directive of the definition that has the operation's
\* operationName, of the first definition when there is no such name, and
\* returns the operation it was given when that definition has no directive.
C39_NamedDefinitionSelected ==
    (NoContextKey /\ Len(CallDocument.more) > 0)
        => /\ ~call.threw
           /\ HasKeyList(CallTarget)
                 => call.key = JsonArray(KeyList(CallTarget), call.operation.variables)
           /\ ~HasSerialize(CallTarget)
                 => /\ call.key = Undefined
                    /\ call.returned = call.operation

----------------------------------------------------------------------------
(* Runs with serialization keys that are names of properties of            *)
(* Object.prototype                                                        *)

InheritedOperations ==
    { Operation(k, Ref(PlainDoc), NoVariables) :
          k \in {"A", "constructor", "toString", "__proto__"} }

InheritedNext ==
    \/ \E o \in OpIds, operation \in InheritedOperations : Request(o, operation)
    \/ \E o \in OpIds : Subscribe(o)
    \/ \E o \in OpIds, value \in Values : DownstreamNext(o, value)
    \/ \E o \in OpIds : DownstreamComplete(o)
    \/ \E o \in OpIds : Unsubscribe(o)

InheritedSpec == Init /\ [][InheritedNext]_vars

----------------------------------------------------------------------------
(* C40 *)

\* the step subscribes the stream request() returned for the keyed
\* operation o, so that its subscriber function calls enqueue
EnqueueStep(o) == Keyed(o) /\ ops[o].ticket = 0 /\ ops'[o].ticket > 0

\* C40: enqueue with a truthy key that has no queue, the names of inherited
\* object properties ("constructor", "toString", "__proto__") included,
\* raises no error, creates the queue of the key with the entry as its only
\* element, and starts the entry in the same step.
C40_FreshQueueForEveryKey ==
    [][\A o \in OpIds :
          (EnqueueStep(o) /\ Truthy(ops[o].key) /\ ops[o].key \notin DOMAIN opQueues)
              => /\ \A i \in 1..Len(effects') : effects'[i].e # "TypeError"
                 /\ ops[o].key \in DOMAIN opQueues'
                 /\ opQueues'[ops[o].key] = <<[Entry(o) EXCEPT !.subscription = 1]>>
                 /\ down'[o] = [state |-> "running", starts |-> 1]
                 /\ ops'[o].status = "subscribed"]_vars

====
